---------------------------- MODULE Spec2Model ----------------------------
(***************************************************************************)
(* Trade-up contract search of Skins-Trading-Tracker (src/genetic_algo):   *)
(* the outcome precomputation (preload.py), the ROI fitness function       *)
(* (tradeup_calc.py), the generational engine (genetic.py) and the island  *)
(* engine (genetic_island.py).                                             *)
(*                                                                         *)
(* Numbers. Wear floats are integers in thousandths (0.134 is 134), the    *)
(* granularity generate_float_values rounds to. Prices are integers. The   *)
(* arithmetic the code does on floats (the three floats of an item, the    *)
(* final float of an outcome, the float bucket, the number of elites kept, *)
(* the ROI) is done in IEEE 754 binary64, operation by operation, on       *)
(* values [s, m, e] = s x m x 2^e. A score is a record [n, d, roi]: roi is *)
(* the double the code returns and compares, n / d the exact quotient kept *)
(* for reference; -float('inf') is [n |-> -1, d |-> 0].                    *)
(*                                                                         *)
(* Randomness. The module `random` is a seeded generator: every draw is a  *)
(* function of the generator state, and the state is an input of the run.  *)
(* A state is the sequence of the words the generator yields next, drawn   *)
(* by Init from Seeds; randrange, sample, choice, randint and random       *)
(* consume the words as CPython does. Pool worker processes are re-seeded  *)
(* on start, so each island task draws its own state.                      *)
(***************************************************************************)
EXTENDS Integers, Sequences, FiniteSets, TLC

VARIABLES
    items,                  \* ITEMS: item id -> item record (catalog snapshot)
    sources,                \* SOURCES: source id -> [items: sequence of item ids]
    precomputed_outcomes,   \* PRECOMPUTED_OUTCOMES
    selected_inputs,        \* the candidate pool handed to the engines
    cfg,                    \* the run configuration (arguments of the engine)
    rng,                    \* state of the parent process's random generator
    pc,                     \* position of the engine's main routine
    population,             \* run_genetic_algorithm: population
    fitness_scores,         \* run_genetic_algorithm: fitness_scores
    generation,             \* run_genetic_algorithm: generation
    top_contracts,          \* run_genetic_algorithm: top_contracts
    best_overall_roi,       \* both engines: best_overall_roi
    best_overall_contract,  \* both engines: best_overall_contract
    work_items,             \* evaluate_population_parallel: work_items
    pending,                \* work items whose worker has not returned yet
    results,                \* pool.map: the batch results received, by task
    pool_error,             \* pool.map: the first exception a task raised, or ""
    top_5_contracts,        \* both engines: top_5_contracts
    island_populations,     \* run_island_genetic_algorithm: island_populations
    migration_epoch,        \* run_island_genetic_algorithm: migration_epoch
    island_results,         \* results of pool.map(run_island_worker, ...) so far
    island_migrants,        \* run_island_genetic_algorithm: island_migrants
    worker,                 \* island id -> state of its run_island_worker task
    hist                    \* history of the run (observations only)

vars == << items, sources, precomputed_outcomes, selected_inputs, cfg, rng, pc,
           population, fitness_scores, generation, top_contracts,
           best_overall_roi, best_overall_contract, work_items, pending,
           results, pool_error, top_5_contracts, island_populations,
           migration_epoch,
           island_results, island_migrants, worker, hist >>

-----------------------------------------------------------------------------
(* Exact fractions.                                                        *)

RECURSIVE GCD(_, _)
GCD(a, b) == IF b = 0 THEN a ELSE GCD(b, a % b)

Abs(x) == IF x < 0 THEN -x ELSE x

Rat(n, d) ==
    IF d = 0 THEN [n |-> IF n < 0 THEN -1 ELSE 1, d |-> 0]
    ELSE LET s == IF d < 0 THEN -1 ELSE 1
             g == GCD(Abs(n), Abs(d))
         IN  [n |-> (s * n) \div g, d |-> (s * d) \div g]

RatInt(k) == [n |-> k, d |-> 1]
NegInf == [n |-> -1, d |-> 0]
RatAdd(a, b) == Rat(a.n * b.d + b.n * a.d, a.d * b.d)
RatSub(a, b) == Rat(a.n * b.d - b.n * a.d, a.d * b.d)
RatMul(a, b) == Rat(a.n * b.n, a.d * b.d)
RatDiv(a, b) == Rat(a.n * b.d, a.d * b.n)
RatGT(a, b) == a.n * b.d > b.n * a.d
RatGE(a, b) == a.n * b.d >= b.n * a.d
\* math.ceil of a fraction with d > 0
RatCeil(a) == -((-a.n) \div a.d)

Min(a, b) == IF a < b THEN a ELSE b
Max(a, b) == IF a > b THEN a ELSE b

Range(s) == { s[i] : i \in 1..Len(s) }

-----------------------------------------------------------------------------
(* Python floats: IEEE 754 binary64 with round-to-nearest, ties to even.   *)

\* natural numbers of any size: the digits in base LimbBase = 2^LimbBits,
\* lowest first, without leading zeros
LimbBits == 14
LimbBase == 2^LimbBits

Limb(a, i) == IF i >= 1 /\ i <= Len(a) THEN a[i] ELSE 0

BigNorm(a) ==
    SubSeq(a, 1, Cardinality({ i \in 1..Len(a) : \E j \in i..Len(a) : a[j] # 0 }))

\* -1, 0 or 1 as a < b, a = b or a > b
BigCmp(a, b) ==
    LET differ == { i \in 1..Max(Len(a), Len(b)) : Limb(a, i) # Limb(b, i) }
        Top(S) == CHOOSE i \in S : \A j \in S : j <= i
    IN  IF differ = {} THEN 0
        ELSE IF Limb(a, Top(differ)) > Limb(b, Top(differ)) THEN 1 ELSE -1

\* a + b: limb i receives a carry when the limb below overflows, or is full
\* and receives one
BigAdd(a, b) ==
    LET RECURSIVE Carry(_)
        Carry(i) == /\ i > 1
                    /\ \/ Limb(a, i - 1) + Limb(b, i - 1) >= LimbBase
                       \/ /\ Limb(a, i - 1) + Limb(b, i - 1) = LimbBase - 1
                          /\ Carry(i - 1)
    IN  BigNorm([i \in 1..(Max(Len(a), Len(b)) + 1) |->
                    (Limb(a, i) + Limb(b, i) + (IF Carry(i) THEN 1 ELSE 0)) % LimbBase])

\* a - b for a >= b
BigSub(a, b) ==
    LET RECURSIVE Borrow(_)
        Borrow(i) == /\ i > 1
                     /\ \/ a[i - 1] < Limb(b, i - 1)
                        \/ a[i - 1] = Limb(b, i - 1) /\ Borrow(i - 1)
    IN  BigNorm([i \in 1..Len(a) |->
                    (a[i] - Limb(b, i) - (IF Borrow(i) THEN 1 ELSE 0) + LimbBase) % LimbBase])

\* a * k for 0 < k < LimbBase
BigMulSmall(a, k) ==
    BigAdd([i \in 1..Len(a) |-> (a[i] * k) % LimbBase],
           << 0 >> \o [i \in 1..Len(a) |-> (a[i] * k) \div LimbBase])

\* a * b
RECURSIVE BigMul(_, _)
BigMul(a, b) ==
    IF a = << >> \/ b = << >> THEN << >>
    ELSE BigAdd(BigMulSmall(a, Head(b)), << 0 >> \o BigMul(a, Tail(b)))

BigBitLen(a) ==
    IF a = << >> THEN 0
    ELSE LimbBits * (Len(a) - 1)
           + (CHOOSE j \in 1..LimbBits : 2^(j - 1) <= a[Len(a)] /\ a[Len(a)] < 2^j)

\* a * 2^bits
BigShl(a, bits) ==
    IF a = << >> THEN a
    ELSE [i \in 1..(bits \div LimbBits) |-> 0] \o BigMulSmall(a, 2^(bits % LimbBits))

\* floor(a / 2^bits)
BigShr(a, bits) ==
    LET q == bits \div LimbBits
        r == 2^(bits % LimbBits)
    IN  BigNorm([i \in 1..(Len(a) - q) |->
                    (a[i + q] \div r) + (Limb(a, i + q + 1) % r) * (LimbBase \div r)])

\* the number of trailing zero bits of a # 0
BigTrailingZeros(a) ==
    LET i == CHOOSE k \in 1..Len(a) : a[k] # 0 /\ \A j \in 1..(k - 1) : a[j] = 0
    IN  LimbBits * (i - 1)
          + (CHOOSE j \in 0..(LimbBits - 1) : a[i] % 2^(j + 1) = 2^j)

\* short division: the quotient digits and the remainder of the limbs
\* i..Len(a) of a by the limb b
ShortStep(prev, limb, b) ==
    [q |-> << (prev.r * LimbBase + limb) \div b >> \o prev.q,
     r |-> (prev.r * LimbBase + limb) % b]

RECURSIVE BigDivShort(_, _, _)
BigDivShort(a, b, i) ==
    IF i > Len(a) THEN [q |-> << >>, r |-> 0]
    ELSE ShortStep(BigDivShort(a, b, i + 1), a[i], b)

\* the largest x <= guess with b * x <= cur
RECURSIVE BigDivDigit(_, _, _)
BigDivDigit(b, cur, guess) ==
    IF guess = 0 \/ BigCmp(BigMulSmall(b, guess), cur) <= 0 THEN guess
    ELSE BigDivDigit(b, cur, guess - 1)

Reduce(b, prev, cur, d) ==
    [q |-> << d >> \o prev.q,
     r |-> IF d = 0 THEN cur ELSE BigSub(cur, BigMulSmall(b, d))]

\* one quotient digit: estimated from the two leading limbs, then corrected
Estimate(b, prev, cur) ==
    Reduce(b, prev, cur,
           BigDivDigit(b, cur,
                       Min(LimbBase - 1,
                           (Limb(cur, Len(b) + 1) * LimbBase + Limb(cur, Len(b)))
                               \div b[Len(b)])))

LongStep(b, prev, limb) ==
    IF prev.q = << >> /\ prev.r = << >> /\ limb = 0 THEN prev
    ELSE Estimate(b, prev, BigNorm(<< limb >> \o prev.r))

\* long division by digits, for b scaled to a leading limb >= LimbBase / 2
RECURSIVE BigDivLong(_, _, _)
BigDivLong(a, b, i) ==
    IF i > Len(a) THEN [q |-> << >>, r |-> << >>]
    ELSE LongStep(b, BigDivLong(a, b, i + 1), a[i])

ShortResult(res) == [q |-> BigNorm(res.q), exact |-> res.r = 0]

LongResult(res) == [q |-> BigNorm(res.q), exact |-> res.r = << >>]

\* floor(a / b) and whether the division is exact, b # 0
BigDiv(a, b) ==
    IF Len(b) = 1 THEN ShortResult(BigDivShort(a, b[1], 1))
    ELSE LongResult(BigDivLong(BigShl(a, LimbBits - BigBitLen(<< b[Len(b)] >>)),
                               BigShl(b, LimbBits - BigBitLen(<< b[Len(b)] >>)), 1))

\* IEEE 754 binary64 values as s * m * 2^e with m odd, or zero
DZero == [s |-> 1, m |-> << >>, e |-> 0]

\* -a
DNeg(a) == IF a.m = << >> THEN a ELSE [a EXCEPT !.s = -a.s]

\* s * n * 2^e for n below 2^53
DExact(s, n, e) ==
    IF n = << >> THEN DZero
    ELSE [s |-> s, m |-> BigShr(n, BigTrailingZeros(n)), e |-> e + BigTrailingZeros(n)]

\* floor(n / 2^sh) rounded up when the bits dropped are more than half a
\* unit, or half a unit and the result odd; sticky: a non-zero fraction
\* follows the bits of n
RoundedShift(n, sh, sticky, kept) ==
    IF /\ Limb(BigShr(n, sh - 1), 1) % 2 = 1
       /\ \/ sticky
          \/ BigTrailingZeros(n) < sh - 1
          \/ Limb(kept, 1) % 2 = 1
    THEN BigAdd(kept, << 1 >>) ELSE kept

\* x.s * (x.n + a fraction, non-zero iff x.sticky) * 2^x.e rounded to 53
\* significant bits, ties to even; with sticky, x.n has at least 55 bits
DRoundTo(x, sh) ==
    IF sh <= 0 THEN DExact(x.s, x.n, x.e)
    ELSE DExact(x.s, RoundedShift(x.n, sh, x.sticky, BigShr(x.n, sh)), x.e + sh)

DRound(x) == IF x.n = << >> THEN DZero ELSE DRoundTo(x, BigBitLen(x.n) - 53)

\* float(k) for an int below 2^28
DFromInt(k) ==
    DExact(IF k < 0 THEN -1 ELSE 1,
           BigNorm(<< Abs(k) % LimbBase, Abs(k) \div LimbBase >>), 0)

\* the exact sum of two values aligned to the exponent e
Signed(a, b, na, nb, e) ==
    IF a.s = b.s THEN [s |-> a.s, n |-> BigAdd(na, nb), e |-> e, sticky |-> FALSE]
    ELSE IF BigCmp(na, nb) >= 0
    THEN [s |-> a.s, n |-> BigSub(na, nb), e |-> e, sticky |-> FALSE]
    ELSE [s |-> b.s, n |-> BigSub(nb, na), e |-> e, sticky |-> FALSE]

\* a + b, a * b and a / b (b # 0) before rounding
DAdd(a, b) ==
    IF a.m = << >> THEN [s |-> b.s, n |-> b.m, e |-> b.e, sticky |-> FALSE]
    ELSE IF b.m = << >> THEN [s |-> a.s, n |-> a.m, e |-> a.e, sticky |-> FALSE]
    ELSE Signed(a, b, BigShl(a.m, a.e - Min(a.e, b.e)),
                BigShl(b.m, b.e - Min(a.e, b.e)), Min(a.e, b.e))

DMul(a, b) ==
    [s |-> a.s * b.s, n |-> BigMul(a.m, b.m), e |-> a.e + b.e, sticky |-> FALSE]

\* the quotient of the mantissas to at least 55 bits
Quotient(a, b, t, d) ==
    [s |-> a.s * b.s, n |-> d.q, e |-> a.e - b.e - t, sticky |-> ~d.exact]

DDiv(a, b) ==
    IF a.m = << >> THEN [s |-> 1, n |-> << >>, e |-> 0, sticky |-> FALSE]
    ELSE Quotient(a, b, Max(0, 55 + BigBitLen(b.m) - BigBitLen(a.m)),
                  BigDiv(BigShl(a.m, Max(0, 55 + BigBitLen(b.m) - BigBitLen(a.m))),
                         b.m))

\* -1, 0 or 1 as a < b, a = b or a > b, for two values of the same sign: by
\* the highest bit, then by the bits
Magnitude(a, b, ta, tb) ==
    IF ta # tb THEN (IF ta > tb THEN 1 ELSE -1)
    ELSE BigCmp(BigShl(a.m, a.e - Min(a.e, b.e)), BigShl(b.m, b.e - Min(a.e, b.e)))

Sign(a) == IF a.m = << >> THEN 0 ELSE a.s

\* -1, 0 or 1 as a < b, a = b or a > b
DCmp(a, b) ==
    IF Sign(a) # Sign(b) THEN (IF Sign(a) > Sign(b) THEN 1 ELSE -1)
    ELSE IF Sign(a) = 0 THEN 0
    ELSE a.s * Magnitude(a, b, BigBitLen(a.m) + a.e, BigBitLen(b.m) + b.e)

\* the integer of at most two limbs
Whole(n) == Limb(n, 1) + LimbBase * Limb(n, 2)

\* math.ceil(a), capped at 2^28 in absolute value
DCeil(a) ==
    IF a.m = << >> THEN 0
    ELSE IF BigBitLen(a.m) + a.e > 28 THEN a.s * 2^28
    ELSE IF a.e >= 0 THEN a.s * Whole(BigShl(a.m, a.e))
    ELSE IF a.s = 1 THEN Whole(BigShr(a.m, -a.e)) + 1
    ELSE -Whole(BigShr(a.m, -a.e))

\* int(a), capped at 2^28 in absolute value
DTrunc(a) ==
    IF a.m = << >> THEN 0
    ELSE IF BigBitLen(a.m) + a.e > 28 THEN a.s * 2^28
    ELSE IF a.e >= 0 THEN a.s * Whole(BigShl(a.m, a.e))
    ELSE a.s * Whole(BigShr(a.m, -a.e))

\* round(a, 3) in thousandths for 0 <= a < 2^18: the multiple of 0.001
\* nearest to the value of the double, the even one when the double is
\* halfway
DRound3(a) ==
    IF a.m = << >> THEN 0
    ELSE IF a.e >= 0 THEN Whole(BigShl(BigMulSmall(a.m, 1000), a.e))
    ELSE Whole(RoundedShift(BigMulSmall(a.m, 1000), -a.e, FALSE,
                            BigShr(BigMulSmall(a.m, 1000), -a.e)))

\* A float expression is << "int", k >> for float(k), << "val", d >> for the
\* float d, or << op, x, y >> for x op y with op one of "+", "-", "*", "/"
\* and x, y float expressions.

\* the decimal literal n / 1000: the float nearest to it
Thousandths(n) == << "/", << "int", n >>, << "int", 1000 >> >>

\* the value of a float expression: each operation is rounded to the nearest
\* float
RECURSIVE Float(_)
Float(x) ==
    IF x[1] = "int" THEN DFromInt(x[2])
    ELSE IF x[1] = "val" THEN x[2]
    ELSE DRound(IF x[1] = "*" THEN DMul(Float(x[2]), Float(x[3]))
                ELSE IF x[1] = "/" THEN DDiv(Float(x[2]), Float(x[3]))
                ELSE IF x[1] = "-" THEN DAdd(Float(x[2]), DNeg(Float(x[3])))
                ELSE DAdd(Float(x[2]), Float(x[3])))

-----------------------------------------------------------------------------
(* The random generator.                                                   *)

\* The generator of the random module is a Mersenne Twister: up to 623
\* consecutive 32-bit words of its output can take any values, and its state
\* determines the words after them.  A state is here the sequence of the
\* words the generator yields next, the 16 high bits of each (the low bits
\* are 0), continued past its end by a linear congruential step from its
\* last word.
WordBits == 16

RngNext(s) ==
    IF Len(s) > 1 THEN Tail(s) ELSE << (25173 * s[1] + 13849) % 2^WordBits >>

\* the outcome of a call that draws: the value returned and the state of the
\* generator after the call, or the exception raised
Value(v, r) == [ok |-> TRUE, error |-> "", v |-> v, r |-> r]
Exception(error, r) == [ok |-> FALSE, error |-> error, v |-> << >>, r |-> r]

\* getrandbits(k), 1 <= k <= WordBits: the k high bits of the next word
GetRandBits(k, s) == [v |-> s[1] \div 2^(WordBits - k), r |-> RngNext(s)]

\* n.bit_length()
RECURSIVE BitLength(_)
BitLength(n) == IF n = 0 THEN 0 ELSE 1 + BitLength(n \div 2)

\* _randbelow(n), n > 0: r = getrandbits(k); while r >= n: r = getrandbits(k)
RECURSIVE RandBelowLoop(_, _, _)
RandBelowLoop(n, k, r) ==
    IF r.v >= n THEN RandBelowLoop(n, k, GetRandBits(k, r.r)) ELSE r

\* random.randrange(n), n < 2^WordBits: ValueError for an empty range, else
\* _randbelow(n)
RandBelow(n, s) ==
    IF n <= 0 THEN Exception("ValueError", s)
    ELSE LET Drawn(r) == Value(r.v, r.r)
         IN  Drawn(RandBelowLoop(n, BitLength(n), GetRandBits(BitLength(n), s)))

\* random.randint(lo, hi) = randrange(lo, hi + 1)
RandInt(lo, hi, s) ==
    LET Shifted(x) == IF x.ok THEN Value(lo + x.v, x.r) ELSE x
    IN  Shifted(RandBelow(hi + 1 - lo, s))

\* random.random() takes two words, (a * 2^26 + b) / 2^53 with a the 27 high
\* bits of the first and b the 26 high bits of the second: v is the first
\* word, the value in units of 2^-16 rounded down
Random(s) == [v |-> s[1], r |-> RngNext(RngNext(s))]

\* random() < tenths / 10 for tenths in 4, 5, 7: b / 2^53 < 2^-27 leaves
\* the comparison to the first word
LessThan(x, tenths) == x.v * 10 < tenths * 2^WordBits

\* random.choice(seq): IndexError for an empty sequence; i is the position
\* chosen, counted from 1
Choice(seq, s) ==
    IF seq = << >>
    THEN [ok |-> FALSE, error |-> "IndexError", v |-> << >>, r |-> s, i |-> 0]
    ELSE LET At(j) == [ok |-> TRUE, error |-> "", v |-> seq[j.v + 1], r |-> j.r,
                       i |-> j.v + 1]
         IN  At(RandBelow(Len(seq), s))

\* _ceil(_log(x, 4)) for x that is no power of 4
RECURSIVE CeilLog4(_)
CeilLog4(x) == IF x <= 1 THEN 0 ELSE 1 + CeilLog4((x + 3) \div 4)

\* setsize of random.sample
SetSize(k) == 21 + (IF k > 5 THEN 4^CeilLog4(k * 3) ELSE 0)

\* sample, n <= setsize: for i in range(k): j = randbelow(n - i);
\* result[i] = pool[j]; pool[j] = pool[n - i - 1]
RECURSIVE SamplePool(_, _, _, _, _)
SamplePool(pool, i, k, result, s) ==
    IF i = k THEN Value(result, s)
    ELSE LET Moved(j) ==
                 SamplePool([pool EXCEPT ![j.v + 1] = pool[Len(pool) - i]], i + 1, k,
                            Append(result, pool[j.v + 1]), j.r)
         IN  Moved(RandBelow(Len(pool) - i, s))

\* sample, n > setsize: j = randbelow(n) until j is not in selected
RECURSIVE SampleSet(_, _, _, _, _, _)
SampleSet(seq, selected, i, k, result, s) ==
    IF i = k THEN Value(result, s)
    ELSE LET Taken(j) ==
                 IF j.v \in selected
                 THEN SampleSet(seq, selected, i, k, result, j.r)
                 ELSE SampleSet(seq, selected \cup {j.v}, i + 1, k,
                                Append(result, seq[j.v + 1]), j.r)
         IN  Taken(RandBelow(Len(seq), s))

\* random.sample(seq, k): k elements at distinct positions
Sample(seq, k, s) ==
    IF ~(0 <= k /\ k <= Len(seq)) THEN Exception("ValueError", s)
    ELSE IF Len(seq) <= SetSize(k) THEN SamplePool(seq, 0, k, << >>, s)
    ELSE SampleSet(seq, {}, 0, k, << >>, s)

-----------------------------------------------------------------------------
(* preload.py: catalog, outcome precomputation, candidate pool.            *)

MINIMUM_OFFERS == 50

RARITY_ORDER == << "Consumer Grade", "Industrial Grade", "Mil-Spec Grade",
                   "Restricted", "Classified", "Covert", "Gold" >>

RarityIndex(rarity) == CHOOSE i \in 1..Len(RARITY_ORDER) : RARITY_ORDER[i] = rarity

\* item.get('min_float', 0.0) or 0.0
ItemMin(item) == item.min_float
\* item.get('max_float', 1.0) or 1.0
ItemMax(item) == IF item.max_float = 0 THEN 1000 ELSE item.max_float

\* round(real_min + float_range * f, 3) at 25%, 50% and 80% of the real
\* range, in thousandths; the sums and products are those of the doubles
generate_float_values(real_min, real_max) ==
    LET float_range == << "-", Thousandths(real_max), Thousandths(real_min) >>
        At(f) == << "+", Thousandths(real_min), << "*", float_range, f >> >>
        values == << At(Thousandths(250)), At(Thousandths(500)), At(Thousandths(800)) >>
    IN  [k \in 1..3 |-> DRound3(Float(values[k]))]

\* SOURCE_OUTCOMES[source_id][rarity][stattrak], as load_sources builds it
SourceOutcomes(its, srcs, source_id, rarity, stattrak) ==
    SelectSeq(srcs[source_id].items,
              LAMBDA item_id : /\ item_id \in DOMAIN its
                               /\ its[item_id].real_rarity = rarity
                               /\ its[item_id].stattrak = stattrak)

\* rarity in SOURCE_OUTCOMES[source_id]
SourceHasRarity(its, srcs, source_id, rarity) ==
    \E k \in 1..Len(srcs[source_id].items) :
        /\ srcs[source_id].items[k] \in DOMAIN its
        /\ its[srcs[source_id].items[k]].real_rarity = rarity

\* real_min <= final_float <= real_max for final_float = ff_int / 100.0 *
\* (item_max - item_min) + item_min, lines 151-163.  The double differs from
\* the exact value (here in units of 0.00001) by less than 2^-40, so the
\* comparison with a bound can differ from the exact one only when the exact
\* value equals the bound; the doubles are computed in that case
InRealRange(out_item, ff_int) ==
    LET item_min == ItemMin(out_item)
        item_max == ItemMax(out_item)
        exact == ff_int * (item_max - item_min) + 100 * item_min
        float_factor == << "/", << "int", ff_int >>, << "int", 100 >> >>
        final_float ==
            << "+", << "*", float_factor,
                       << "-", Thousandths(item_max), Thousandths(item_min) >> >>,
                    Thousandths(item_min) >>
        floats == << Thousandths(out_item.real_min_float), final_float,
                     Thousandths(out_item.real_max_float) >>
        Ordered(v) == DCmp(v[1], v[2]) <= 0 /\ DCmp(v[2], v[3]) <= 0
    IN  IF exact # 100 * out_item.real_min_float /\ exact # 100 * out_item.real_max_float
        THEN 100 * out_item.real_min_float < exact /\ exact < 100 * out_item.real_max_float
        ELSE Ordered([k \in 1..3 |-> Float(floats[k])])

\* the dict appended to valid_outcomes, lines 164-168; final_float is the
\* exact value in units of 0.00001
ValidOutcomeDict(out_item, ff_int, price) ==
    [item_id |-> out_item.id,
     final_float |-> ff_int * (ItemMax(out_item) - ItemMin(out_item))
                         + 100 * ItemMin(out_item),
     price |-> price]

\* variant of ValidOutcome: an item with exactly MINIMUM_OFFERS offers keeps
\* its price
ValidOutcomeAtThreshold(out_item, ff_int) ==
    IF InRealRange(out_item, ff_int)
    THEN << ValidOutcomeDict(out_item, ff_int,
                    IF out_item.offers >= MINIMUM_OFFERS THEN out_item.price ELSE 0) >>
    ELSE << >>

\* the outcome an output item yields at float factor ff_int, << >> if none
ValidOutcome(out_item, ff_int) ==
    IF InRealRange(out_item, ff_int)
    THEN << ValidOutcomeDict(out_item, ff_int,
                    IF out_item.offers > MINIMUM_OFFERS THEN out_item.price ELSE 0) >>
    ELSE << >>

RECURSIVE ValidOutcomes(_, _, _)
ValidOutcomes(its, output_item_ids, ff_int) ==
    IF output_item_ids = << >> THEN << >>
    ELSE ValidOutcome(its[Head(output_item_ids)], ff_int)
         \o ValidOutcomes(its, Tail(output_item_ids), ff_int)

RECURSIVE SumPrices(_)
SumPrices(entries) ==
    IF entries = << >> THEN 0 ELSE Head(entries).price + SumPrices(Tail(entries))

\* one stored bucket: [mean_price] + valid_outcomes
Bucket(valid_outcomes) ==
    << Rat(SumPrices(valid_outcomes), Len(valid_outcomes)) >> \o valid_outcomes

\* PRECOMPUTED_OUTCOMES[input_rarity][stattrak][source_id]
SourceBuckets(its, srcs, source_id, output_rarity, stattrak) ==
    LET output_item_ids ==
            IF SourceHasRarity(its, srcs, source_id, output_rarity)
            THEN SourceOutcomes(its, srcs, source_id, output_rarity, stattrak)
            ELSE << >>
        present == { ff_int \in 0..99 :
                       ValidOutcomes(its, output_item_ids, ff_int) # << >> }
    IN  [ff_int \in present |->
            Bucket(ValidOutcomes(its, output_item_ids, ff_int))]

precompute_outcomes(its, srcs) ==
    [input_rarity \in { RARITY_ORDER[i] : i \in 1..(Len(RARITY_ORDER) - 1) } |->
       [stattrak \in BOOLEAN |->
          LET output_rarity == RARITY_ORDER[RarityIndex(input_rarity) + 1]
              relevant_sources ==
                  { source_id \in DOMAIN srcs :
                      /\ SourceHasRarity(its, srcs, source_id, input_rarity)
                      /\ SourceOutcomes(its, srcs, source_id, input_rarity, stattrak) # << >> }
          IN  [source_id \in relevant_sources |->
                  SourceBuckets(its, srcs, source_id, output_rarity, stattrak)]]]

\* the three pool entries of one item, or none when the item is filtered out
PoolEntries(its, srcs, item_id, rarity, stattrak, next_rarity) ==
    LET item == its[item_id]
        has_valid_source ==
            \E source_id \in DOMAIN srcs :
                /\ SourceHasRarity(its, srcs, source_id, rarity)
                /\ item_id \in Range(SourceOutcomes(its, srcs, source_id, rarity, stattrak))
                /\ SourceHasRarity(its, srcs, source_id, next_rarity)
                /\ SourceOutcomes(its, srcs, source_id, next_rarity, stattrak) # << >>
        floats == generate_float_values(item.real_min_float, item.real_max_float)
    IN  IF item.price <= 0 \/ item.offers <= MINIMUM_OFFERS \/ ~has_valid_source
        THEN << >>
        ELSE [k \in 1..3 |-> [id |-> item_id, float |-> floats[k], price |-> item.price]]

RECURSIVE PoolOf(_, _, _, _, _, _)
PoolOf(its, srcs, item_ids, rarity, stattrak, next_rarity) ==
    IF item_ids = << >> THEN << >>
    ELSE PoolEntries(its, srcs, Head(item_ids), rarity, stattrak, next_rarity)
         \o PoolOf(its, srcs, Tail(item_ids), rarity, stattrak, next_rarity)

\* ITEMS_BY_RARITY[rarity][stattrak] as load_items builds it: the ids of the
\* rarity in the order of the listing the API returned
RECURSIVE IdsByRarity(_, _, _, _)
IdsByRarity(its, listing, rarity, stattrak) ==
    IF listing = << >> THEN << >>
    ELSE LET rest == IdsByRarity(its, Tail(listing), rarity, stattrak)
         IN  IF /\ its[Head(listing)].real_rarity = rarity
                /\ its[Head(listing)].stattrak = stattrak
             THEN << Head(listing) >> \o rest ELSE rest

load_input_items(its, srcs, listing, rarity, stattrak) ==
    IF \A k \in 1..Len(listing) : its[listing[k]].real_rarity # rarity THEN << >>
    ELSE IF ~(\E i \in 1..Len(RARITY_ORDER) : RARITY_ORDER[i] = rarity) THEN << >>
    ELSE IF RarityIndex(rarity) + 1 > Len(RARITY_ORDER) THEN << >>
    ELSE PoolOf(its, srcs, IdsByRarity(its, listing, rarity, stattrak),
                rarity, stattrak, RARITY_ORDER[RarityIndex(rarity) + 1])

-----------------------------------------------------------------------------
(* tradeup_calc.py: the fitness function.                                  *)

\* (entry['float'] - item_min) / range_val, 0 when the range is not positive
Normalized(entry, item) ==
    LET range_val == ItemMax(item) - ItemMin(item)
    IN  IF range_val > 0 THEN Rat(entry.float - ItemMin(item), range_val)
        ELSE RatInt(0)

RECURSIVE SumNormalized(_, _)
SumNormalized(input_items, its) ==
    IF input_items = << >> THEN RatInt(0)
    ELSE RatAdd(Normalized(Head(input_items), its[Head(input_items).id]),
                SumNormalized(Tail(input_items), its))

\* every source of every entry, one element per (entry, source)
RECURSIVE SourceList(_, _)
SourceList(input_items, its) ==
    IF input_items = << >> THEN << >>
    ELSE its[Head(input_items).id].sources \o SourceList(Tail(input_items), its)

\* variant of SourceCounts: an entry counts for the first source of its item only
SourceCountsFirst(input_items, its) ==
    LET first == [k \in 1..Len(input_items) |-> its[input_items[k].id].sources[1]]
    IN  [source_id \in Range(first) |->
            Cardinality({ k \in 1..Len(first) : first[k] = source_id })]

\* source_counts: source id -> number of (entry, source) pairs
SourceCounts(input_items, its) ==
    LET all == SourceList(input_items, its)
    IN  [source_id \in Range(all) |->
            Cardinality({ k \in 1..Len(all) : all[k] = source_id })]

\* min(int(math.ceil(avg_normalized_float * 100) / 1), 99), lines 27-55.  The
\* float product is within 2^-40 of the exact one, so the two ceilings can
\* differ only when the exact product is an integer; the doubles are computed
\* in that case (and for denominators too large for the argument to apply)
FloatFactorInt(input_items, its) ==
    LET exact == RatMul(RatDiv(SumNormalized(input_items, its),
                               RatInt(Len(input_items))), RatInt(100))
        \* normalized = (entry['float'] - item_min) / range_val if range_val > 0
        normalized(entry, item_min, item_max) ==
            IF item_max > item_min
            THEN << "/", << "-", Thousandths(entry.float), Thousandths(item_min) >>,
                         << "-", Thousandths(item_max), Thousandths(item_min) >> >>
            ELSE << "int", 0 >>
        RECURSIVE sum_normalized(_)
        sum_normalized(k) ==
            IF k = 0 THEN << "int", 0 >>
            ELSE << "+", sum_normalized(k - 1),
                         normalized(input_items[k], ItemMin(its[input_items[k].id]),
                                    ItemMax(its[input_items[k].id])) >>
        avg_normalized_float ==
            << "/", sum_normalized(Len(input_items)), << "int", Len(input_items) >> >>
    IN  Min(IF exact.n % exact.d # 0 /\ exact.d <= 2^20 THEN RatCeil(exact)
            ELSE DCeil(Float(<< "*", avg_normalized_float, << "int", 100 >> >>)),
            99)

\* the keys of source_counts in the order the loop of lines 31-49 inserts them
RECURSIVE SourceOrder(_, _)
SourceOrder(all, seen) ==
    IF all = << >> THEN << >>
    ELSE IF Head(all) \in seen THEN SourceOrder(Tail(all), seen)
    ELSE << Head(all) >> \o SourceOrder(Tail(all), seen \cup {Head(all)})

\* an ROI: the float the code returns, and the exact value n / d of the
\* expression of lines 58-67
Score(exact, roi) == [n |-> exact.n, d |-> exact.d, roi |-> roi]

\* lines 58-67 as the code evaluates them: terms lists, for each source in
\* the order of source_counts, the mean price of the bucket and the count
RoiDouble(terms, k, total_input_price) ==
    LET RECURSIVE expected_value(_)
        expected_value(i) ==
            IF i = 0 THEN << "int", 0 >>
            ELSE << "+", expected_value(i - 1),
                         << "*", << "/", << "int", terms[i].mean.n >>,
                                         << "int", terms[i].mean.d >> >>,
                                 << "/", << "int", terms[i].count >>, << "int", k >> >> >> >>
    IN  Float(<< "*", << "/", << "-", expected_value(Len(terms)),
                                      << "int", total_input_price >> >>,
                              << "int", total_input_price >> >>,
                      << "int", 100 >> >>)

\* a > b for two floats that are ROIs or -inf (d = 0)
ScoreGT(a, b) ==
    IF a.d = 0 THEN FALSE
    ELSE IF b.d = 0 THEN TRUE
    ELSE DCmp(a.roi, b.roi) > 0

\* a >= b and a == b
ScoreGE(a, b) == ~ScoreGT(b, a)
ScoreEQ(a, b) == ~ScoreGT(a, b) /\ ~ScoreGT(b, a)

\* the lookup precomputed_outcomes[rarity][stattrak][source][bucket] succeeds
HasKey(table, input_rarity, stattrak, source_id, float_factor_int) ==
    /\ input_rarity \in DOMAIN table
    /\ source_id \in DOMAIN table[input_rarity][stattrak]
    /\ float_factor_int \in DOMAIN table[input_rarity][stattrak][source_id]

RECURSIVE ExpectedValue(_, _, _, _)
ExpectedValue(counts, keys, lookup, num) ==
    IF keys = {} THEN RatInt(0)
    ELSE LET source_id == CHOOSE x \in keys : TRUE
         IN  RatAdd(RatMul(lookup[source_id][1], Rat(counts[source_id], num)),
                    ExpectedValue(counts, keys \ {source_id}, lookup, num))

\* the returned ROI, or the exception the call raises, and the bucket
\* computed on line 55
calculate_contract_roi_fast(input_items, its, table) ==
    LET first_item == its[input_items[1].id]
        input_rarity == first_item.real_rarity
        stattrak == first_item.stattrak
        total_input_price == SumPrices(input_items)
        source_counts == SourceCounts(input_items, its)
        \* lines 57-67 for the bucket float_factor_int
        Lookup(float_factor_int) ==
            LET missing == { source_id \in DOMAIN source_counts :
                               ~HasKey(table, input_rarity, stattrak, source_id,
                                       float_factor_int) }
            IN  IF missing # {}
                THEN [ok |-> FALSE, error |-> "KeyError",
                      float_factor_int |-> float_factor_int]
                ELSE IF total_input_price = 0
                THEN [ok |-> FALSE, error |-> "ZeroDivisionError",
                      float_factor_int |-> float_factor_int]
                ELSE LET lookup == [source_id \in DOMAIN source_counts |->
                                       table[input_rarity][stattrak][source_id][float_factor_int]]
                         expected_value == ExpectedValue(source_counts, DOMAIN source_counts,
                                                         lookup, Len(input_items))
                         Terms(keys) == [i \in 1..Len(keys) |->
                                            [mean |-> lookup[keys[i]][1],
                                             count |-> source_counts[keys[i]]]]
                     IN  [ok |-> TRUE, float_factor_int |-> float_factor_int,
                          roi |-> Score(RatMul(RatDiv(RatSub(expected_value,
                                                             RatInt(total_input_price)),
                                                      RatInt(total_input_price)),
                                               RatInt(100)),
                                        RoiDouble(Terms(SelectSeq(
                                                      SourceOrder(SourceList(input_items, its), {}),
                                                      LAMBDA source_id :
                                                          source_id \in DOMAIN source_counts)),
                                                  Len(input_items), total_input_price))]
    IN  Lookup(FloatFactorInt(input_items, its))

-----------------------------------------------------------------------------
(* Catalog snapshots the runs are checked on.                              *)

Item(id, rarity, price, offers, min_float, max_float, real_min, real_max, srcs) ==
    [id |-> id, real_rarity |-> rarity, stattrak |-> FALSE, price |-> price,
     offers |-> offers, min_float |-> min_float, max_float |-> max_float,
     real_min_float |-> real_min, real_max_float |-> real_max, sources |-> srcs]

\* the Covert and Gold items of the two crates; listing: the ids in the
\* order the API lists them
CovertItems ==
    << Item(1, "Covert", 100, 100, 0, 1000, 70, 150, << "crate_1" >>),
       Item(2, "Covert", 120, 80, 0, 500, 70, 150, << "crate_1" >>),
       Item(3, "Gold", 700, 100, 0, 1000, 0, 150, << "crate_1" >>) >>

GoldItems ==
    << Item(4, "Gold", 400, 100, 0, 1000, 150, 380, << "crate_1" >>),
       Item(5, "Gold", 900, 10, 0, 1000, 150, 380, << "crate_1" >>) >>

\* four Classified inputs, three Covert items (one with few offers) and
\* three Gold items of one crate: every bucket a contract of the Classified
\* or of the Covert pool can reach has an outcome
CatalogFull ==
    [items |-> CovertItems \o GoldItems \o
               << Item(6, "Classified", 20, 100, 0, 1000, 70, 150, << "crate_1" >>),
                  Item(7, "Classified", 25, 90, 0, 1000, 100, 300, << "crate_1" >>),
                  Item(8, "Classified", 30, 80, 0, 1000, 80, 200, << "crate_1" >>),
                  Item(9, "Classified", 22, 70, 0, 1000, 70, 300, << "crate_1" >>),
                  Item(10, "Covert", 150, 10, 0, 1000, 70, 150, << "crate_1" >>) >>,
     sources |-> [s \in {"crate_1"} |-> [items |-> << 1, 2, 3, 4, 5, 6, 7, 8, 9, 10 >>]],
     listing |-> << 2, 1, 3, 4, 5, 7, 6, 8, 9, 10 >>]

\* the same crate without its Field-Tested Gold items and with Classified
\* items of higher floats: the buckets above 15 of the Covert inputs and
\* above 30 of the Classified inputs are empty
CatalogHoles ==
    [items |-> CovertItems \o
               << Item(4, "Classified", 20, 100, 0, 1000, 70, 150, << "crate_1" >>),
                  Item(5, "Classified", 25, 90, 0, 1000, 100, 300, << "crate_1" >>),
                  Item(6, "Classified", 30, 80, 0, 1000, 0, 1000, << "crate_1" >>),
                  Item(7, "Classified", 22, 70, 0, 1000, 200, 600, << "crate_1" >>) >>,
     sources |-> [s \in {"crate_1"} |-> [items |-> << 1, 2, 3, 4, 5, 6, 7 >>]],
     listing |-> << 1, 2, 3, 4, 5, 6, 7 >>]

\* a crate with three Classified items on offer: the pool has 9 entries
CatalogShort ==
    [items |-> CovertItems \o
               << Item(4, "Classified", 20, 100, 0, 1000, 70, 150, << "crate_1" >>),
                  Item(5, "Classified", 25, 90, 0, 1000, 100, 300, << "crate_1" >>),
                  Item(6, "Classified", 30, 80, 0, 1000, 80, 200, << "crate_1" >>),
                  Item(7, "Classified", 22, 50, 0, 1000, 70, 300, << "crate_1" >>) >>,
     sources |-> [s \in {"crate_1"} |-> [items |-> << 1, 2, 3, 4, 5, 6, 7 >>]],
     listing |-> << 1, 2, 3, 4, 5, 6, 7 >>]

\* a crate without Classified items
CatalogNoInput ==
    [items |-> CovertItems \o GoldItems,
     sources |-> [s \in {"crate_1"} |-> [items |-> << 1, 2, 3, 4, 5 >>]],
     listing |-> << 1, 2, 3, 4, 5 >>]

Catalogs == { CatalogFull, CatalogHoles, CatalogShort, CatalogNoInput }

-----------------------------------------------------------------------------
(* genetic.py: population operations.                                      *)

\* (id, float) pairs in tuple order
PairLE(a, b) == a[1] < b[1] \/ (a[1] = b[1] /\ a[2] <= b[2])

RECURSIVE InsertPair(_, _)
InsertPair(sorted, x) ==
    IF sorted = << >> THEN << x >>
    ELSE IF PairLE(x, Head(sorted)) THEN << x >> \o sorted
    ELSE << Head(sorted) >> \o InsertPair(Tail(sorted), x)

RECURSIVE SortedPairs(_)
SortedPairs(pairs) ==
    IF pairs = << >> THEN << >>
    ELSE InsertPair(SortedPairs(Tail(pairs)), Head(pairs))

\* tuple(sorted((item['id'], item['float']) for item in contract))
\* variant of normalize_contract: the pairs in the order of the contract
SignatureUnsorted(contract) ==
    [k \in 1..Len(contract) |-> << contract[k].id, contract[k].float >>]

normalize_contract(contract) ==
    SortedPairs([k \in 1..Len(contract) |-> << contract[k].id, contract[k].float >>])

RECURSIVE UniqueLoop(_, _, _)
UniqueLoop(contracts, seen, unique_contracts) ==
    IF contracts = << >> THEN unique_contracts
    ELSE LET sig == normalize_contract(Head(contracts))
         IN  IF sig \notin seen
             THEN UniqueLoop(Tail(contracts), seen \cup {sig},
                             Append(unique_contracts, Head(contracts)))
             ELSE UniqueLoop(Tail(contracts), seen, unique_contracts)

\* variant of remove_duplicate_contracts: nothing is dropped
KeepAll(contracts) == contracts

remove_duplicate_contracts(contracts) == UniqueLoop(contracts, {}, << >>)

\* list.sort(key=score, reverse=True) is stable: an element goes after every
\* element whose score is not lower
RECURSIVE InsertDesc(_, _)
InsertDesc(sorted, x) ==
    IF sorted = << >> THEN << x >>
    ELSE IF ScoreGT(x.score, Head(sorted).score) THEN << x >> \o sorted
    ELSE << Head(sorted) >> \o InsertDesc(Tail(sorted), x)

RECURSIVE SortDescLoop(_, _)
SortDescLoop(todo, sorted) ==
    IF todo = << >> THEN sorted
    ELSE SortDescLoop(Tail(todo), InsertDesc(sorted, Head(todo)))

SortDesc(contracts_with_scores) == SortDescLoop(contracts_with_scores, << >>)

\* list(zip(population, fitness_scores))
Zip(contracts, scores) ==
    [k \in 1..Min(Len(contracts), Len(scores)) |->
        [contract |-> contracts[k], score |-> scores[k]]]

select_top_contracts(contracts, scores, top_n) ==
    LET contracts_with_scores == SortDesc(Zip(contracts, scores))
    IN  [k \in 1..Min(top_n, Len(contracts_with_scores)) |->
            contracts_with_scores[k].contract]

create_random_contract(input_items, num_items, s) == Sample(input_items, num_items, s)

\* one pass of the first loop: st.v is the population, st.seen the signatures
\* in it, st.attempts the counter, st.r the generator
Attempt(st, c, sig) ==
    IF ~c.ok THEN [st EXCEPT !.ok = FALSE, !.error = c.error, !.r = c.r]
    ELSE IF sig \notin st.seen
    THEN [st EXCEPT !.v = Append(st.v, c.v), !.seen = st.seen \cup {sig},
                    !.attempts = st.attempts + 1, !.r = c.r]
    ELSE [st EXCEPT !.attempts = st.attempts + 1, !.r = c.r]

AttemptOf(st, c) == Attempt(st, c, normalize_contract(c.v))

\* while len(population) < population_size and attempts < population_size * 10
RECURSIVE InitPopulationLoop(_, _, _, _)
InitPopulationLoop(st, input_items, population_size, num_items) ==
    IF st.ok /\ Len(st.v) < population_size /\ st.attempts < population_size * 10
    THEN InitPopulationLoop(AttemptOf(st, create_random_contract(input_items,
                                                                 num_items, st.r)),
                            input_items, population_size, num_items)
    ELSE st

Appended(st, c) ==
    IF ~c.ok THEN [st EXCEPT !.ok = FALSE, !.error = c.error, !.r = c.r]
    ELSE [st EXCEPT !.v = Append(st.v, c.v), !.r = c.r]

\* while len(population) < population_size: append a random contract
RECURSIVE FillRandom(_, _, _, _)
FillRandom(st, population_size, input_items, num_items) ==
    IF st.ok /\ Len(st.v) < population_size
    THEN FillRandom(Appended(st, create_random_contract(input_items, num_items, st.r)),
                    population_size, input_items, num_items)
    ELSE st

\* variant of initialize_population: the signatures are not checked
InitializeUnchecked(input_items, population_size, num_items, s) ==
    LET Filled(p) == [ok |-> p.ok, error |-> p.error, v |-> p.v, r |-> p.r,
                      attempts |-> population_size, accepted |-> population_size]
    IN  Filled(FillRandom(Value(<< >>, s), population_size, input_items, num_items))

\* v: the population returned; attempts, accepted: the value of `attempts`
\* and the length of the population when the first loop ends
initialize_population(input_items, population_size, num_items, s) ==
    LET Filled(unique, p) ==
            [ok |-> p.ok, error |-> p.error, v |-> p.v, r |-> p.r,
             attempts |-> unique.attempts, accepted |-> Len(unique.v)]
        Pad(unique) ==
            Filled(unique, FillRandom(unique, population_size, input_items,
                                      num_items))
    IN  Pad(InitPopulationLoop([ok |-> TRUE, error |-> "", v |-> << >>, r |-> s,
                                attempts |-> 0, seen |-> {}],
                               input_items, population_size, num_items))

\* variant of crossover: the entries of parent2 are left out
CrossoverShort(parent1, parent2, num_items, s) ==
    LET FromParent1(num_from_parent1) ==
            IF ~num_from_parent1.ok THEN num_from_parent1
            ELSE Sample(parent1, num_from_parent1.v, num_from_parent1.r)
    IN  FromParent1(RandInt(1, num_items \div 2 - 1, s))

crossover(parent1, parent2, num_items, s) ==
    LET Child(items_from_parent1, items_from_parent2) ==
            IF ~items_from_parent2.ok THEN items_from_parent2
            ELSE Value(items_from_parent1.v \o items_from_parent2.v,
                       items_from_parent2.r)
        FromParent2(num_from_parent2, items_from_parent1) ==
            IF ~items_from_parent1.ok THEN items_from_parent1
            ELSE Child(items_from_parent1,
                       Sample(parent2, num_from_parent2, items_from_parent1.r))
        FromParent1(num_from_parent1) ==
            IF ~num_from_parent1.ok THEN num_from_parent1
            ELSE FromParent2(num_items - num_from_parent1.v,
                             Sample(parent1, num_from_parent1.v, num_from_parent1.r))
    IN  FromParent1(RandInt(1, num_items \div 2 - 1, s))

\* mutation 1: num_to_replace times, overwrite a random position with an
\* entry of the pool or of the contract itself
RECURSIVE ReplaceLoop(_, _, _, _, _)
ReplaceLoop(mutated, num_to_replace, input_items, num_items, s) ==
    IF num_to_replace = 0 THEN Value(mutated, s)
    ELSE LET Replaced(pos, pick) ==
                 IF ~pick.ok THEN Exception(pick.error, pick.r)
                 ELSE IF pos.v >= Len(mutated) THEN Exception("IndexError", pick.r)
                 ELSE ReplaceLoop([mutated EXCEPT ![pos.v + 1] = pick.v],
                                  num_to_replace - 1, input_items, num_items, pick.r)
             Picked(pos, coin) ==
                 Replaced(pos, IF LessThan(coin, 5) THEN Choice(input_items, coin.r)
                               ELSE Choice(mutated, coin.r))
             At(pos) == IF ~pos.ok THEN pos ELSE Picked(pos, Random(pos.r))
         IN  At(RandInt(0, num_items - 1, s))

\* mutation 2: choice(float_price_tuples) is one float of the 3-tuple that
\* generate_float_values returns, and unpacking it as `new_float, price_mult`
\* raises TypeError whichever float it is; the tuple is given by its positions
RerollFloat(mutated, its, num_items, s) ==
    LET At(pos) ==
            IF ~pos.ok THEN pos
            ELSE IF pos.v >= Len(mutated) THEN Exception("IndexError", pos.r)
            ELSE Exception("TypeError", Choice(<< 1, 2, 3 >>, pos.r).r)
    IN  At(RandInt(0, num_items - 1, s))

\* variant of mutate: `mutated` is the list passed in, not a copy of it
MutateInPlace(contract, input_items, its, num_items, s) ==
    LET Raised(e, list) == [ok |-> e.ok, error |-> e.error, v |-> e.v, r |-> e.r,
                            contract |-> list]
        Second(replaced, coin2) ==
            IF LessThan(coin2, 5)
            THEN Raised(RerollFloat(replaced.v, its, num_items, coin2.r), replaced.v)
            ELSE [ok |-> TRUE, error |-> "", v |-> replaced.v, r |-> coin2.r,
                  contract |-> replaced.v]
        AfterFirst(replaced) ==
            IF ~replaced.ok THEN Raised(replaced, contract)
            ELSE Second(replaced, Random(replaced.r))
        Replace(num_to_replace) ==
            IF ~num_to_replace.ok THEN num_to_replace
            ELSE ReplaceLoop(contract, num_to_replace.v, input_items, num_items,
                             num_to_replace.r)
        First(coin1) ==
            IF LessThan(coin1, 5)
            THEN AfterFirst(Replace(RandInt(1, Len(contract) \div 3, coin1.r)))
            ELSE AfterFirst(Value(contract, coin1.r))
    IN  First(Random(s))

\* v: the list returned, or the exception raised; contract: the list that
\* was passed in, as it is after the call (mutated = contract.copy(), and
\* every assignment is to a position of the copy)
mutate(contract, input_items, its, num_items, s) ==
    LET Raised(e) == [ok |-> e.ok, error |-> e.error, v |-> e.v, r |-> e.r,
                      contract |-> contract]
        Second(replaced, coin2) ==
            IF LessThan(coin2, 5)
            THEN Raised(RerollFloat(replaced.v, its, num_items, coin2.r))
            ELSE [ok |-> TRUE, error |-> "", v |-> replaced.v, r |-> coin2.r,
                  contract |-> contract]
        AfterFirst(replaced) ==
            IF ~replaced.ok THEN Raised(replaced)
            ELSE Second(replaced, Random(replaced.r))
        Replace(num_to_replace) ==
            IF ~num_to_replace.ok THEN num_to_replace
            ELSE ReplaceLoop(contract, num_to_replace.v, input_items, num_items,
                             num_to_replace.r)
        First(coin1) ==
            IF LessThan(coin1, 5)
            THEN AfterFirst(Replace(RandInt(1, Len(contract) \div 3, coin1.r)))
            ELSE AfterFirst(Value(contract, coin1.r))
    IN  First(Random(s))

\* one new contract of the reproduction loop: 40% random, 30% crossover,
\* 30% mutation. top: the lists of top_contracts after the call, the one
\* that base_contract refers to being what mutate left of it; mutated:
\* mutate returned a contract that differs from base_contract
NewContract(top, input_items, its, num_items, s) ==
    LET Made(c) == [ok |-> c.ok, error |-> c.error, v |-> c.v, r |-> c.r, top |-> top,
                    mutated |-> FALSE]
        Cross(parent1, parent2) ==
            IF ~parent2.ok THEN Made(parent2)
            ELSE Made(crossover(parent1.v, parent2.v, num_items, parent2.r))
        Parents(parent1) ==
            IF ~parent1.ok THEN Made(parent1) ELSE Cross(parent1, Choice(top, parent1.r))
        Mutant(pos, base_contract, m) ==
            [ok |-> m.ok, error |-> m.error, v |-> m.v, r |-> m.r,
             top |-> [top EXCEPT ![pos] = m.contract],
             mutated |-> m.ok /\ m.v # base_contract.v]
        Mutated(base_contract) ==
            IF ~base_contract.ok THEN Made(base_contract)
            ELSE Mutant(base_contract.i, base_contract,
                        mutate(base_contract.v, input_items, its, num_items,
                               base_contract.r))
        Branch(rand_value) ==
            IF LessThan(rand_value, 4)
            THEN Made(create_random_contract(input_items, num_items, rand_value.r))
            ELSE IF LessThan(rand_value, 7)
            THEN Parents(Choice(top, rand_value.r))
            ELSE Mutated(Choice(top, rand_value.r))
    IN  Branch(Random(s))

RECURSIVE GenerateLoop(_, _, _, _, _, _, _)
GenerateLoop(num_to_generate, new_population, top, input_items, its, num_items, s) ==
    IF num_to_generate <= 0
    THEN [ok |-> TRUE, error |-> "", v |-> new_population, r |-> s, top |-> top,
          mutations |-> 0]
    ELSE LET Counted(c, rest) ==
                 [rest EXCEPT !.mutations = @ + (IF c.mutated THEN 1 ELSE 0)]
             Added(c) ==
                 IF ~c.ok
                 THEN [ok |-> FALSE, error |-> c.error, v |-> new_population,
                       r |-> c.r, top |-> c.top, mutations |-> 0]
                 ELSE Counted(c, GenerateLoop(num_to_generate - 1,
                                              Append(new_population, c.v), c.top,
                                              input_items, its, num_items, c.r))
         IN  Added(NewContract(top, input_items, its, num_items, s))

\* max(0, int((elite_size - 1) * keep_top_percentage)), the percentage in
\* thousandths.  The product of the doubles is within 2^-40 of the exact one,
\* so int() can differ from the exact floor only when the exact product is
\* an integer; the doubles are computed in that case
NumToKeep(elite_size, keep_top_percentage) ==
    LET exact == (elite_size - 1) * keep_top_percentage
    IN  Max(0, IF exact % 1000 # 0 THEN exact \div 1000
               ELSE DTrunc(Float(<< "*", << "int", elite_size - 1 >>,
                                         Thousandths(keep_top_percentage) >>)))

\* lines 286-321 once the elites to keep are drawn: the generated contracts
\* follow elite[0] and the kept elites
Generated(kept_contracts, top, input_items, its, num_items, population_size) ==
    GenerateLoop(population_size - (1 + Len(kept_contracts.v)),
                 << top[1] >> \o kept_contracts.v, top, input_items, its,
                 num_items, kept_contracts.r)

\* variant of NewPopulation: every slot is filled by the reproduction loop,
\* elite[0] is not carried over
NewPopulationNoElite(top, input_items, its, num_items, population_size, elite_size, keep_top_percentage, s) ==
    GenerateLoop(population_size, << >>, top, input_items, its, num_items, s)

\* elite[0], the kept elites and the generated contracts, before
\* deduplication; top_contracts[0] raises IndexError when no contract was
\* selected
NewPopulation(top, input_items, its, num_items, population_size, elite_size, keep_top_percentage, s) ==
    LET Failed(error, r) == [ok |-> FALSE, error |-> error, v |-> << >>, r |-> r,
                             top |-> top, mutations |-> 0]
        Kept(kept_contracts) ==
            IF ~kept_contracts.ok THEN Failed(kept_contracts.error, kept_contracts.r)
            ELSE Generated(kept_contracts, top, input_items, its, num_items,
                           population_size)
        Keep(num_to_keep) ==
            IF num_to_keep > 0 THEN Kept(Sample(Tail(top), num_to_keep, s))
            ELSE Kept(Value(<< >>, s))
    IN  IF top = << >> THEN Failed("IndexError", s)
        ELSE Keep(NumToKeep(elite_size, keep_top_percentage))

-----------------------------------------------------------------------------
(* genetic.py: parallel evaluation.                                        *)

\* the exception a worker raises on the first contract that fails, or the
\* list of (index, roi) pairs of its batch
RECURSIVE EvaluateBatch(_, _, _, _, _)
EvaluateBatch(contracts, its, table, idx, acc) ==
    IF contracts = << >> THEN [ok |-> TRUE, error |-> "", v |-> acc]
    ELSE LET Scored(roi) ==
                 IF ~roi.ok THEN [ok |-> FALSE, error |-> roi.error, v |-> << >>]
                 ELSE EvaluateBatch(Tail(contracts), its, table, idx + 1,
                                    Append(acc, << idx, roi.roi >>))
         IN  Scored(calculate_contract_roi_fast(Head(contracts), its, table))

evaluate_population_worker(args, its, table) ==
    EvaluateBatch(args.batch, its, table, args.batch_start_idx, << >>)

\* variant of WorkItems: every batch has batch_size contracts, the last one
\* too
WorkItemsEven(pop, num_processes) ==
    LET batch_size == Len(pop) \div num_processes
    IN  [i \in 1..num_processes |->
            [batch |-> SubSeq(pop, (i - 1) * batch_size + 1, i * batch_size),
             batch_start_idx |-> (i - 1) * batch_size]]

\* the work items of evaluate_population_parallel; indices count from 0
WorkItems(pop, num_processes) ==
    LET population_size == Len(pop)
        batch_size == population_size \div num_processes
    IN  [i \in 1..num_processes |->
            LET start_idx == (i - 1) * batch_size
                end_idx == IF i - 1 < num_processes - 1 THEN start_idx + batch_size
                           ELSE population_size
            IN  [batch |-> SubSeq(pop, start_idx + 1, end_idx),
                 batch_start_idx |-> start_idx]]

RECURSIVE Flatten(_)
Flatten(seqs) == IF seqs = << >> THEN << >> ELSE Head(seqs) \o Flatten(Tail(seqs))

\* all_results.sort(key=lambda x: x[0]), stable
RECURSIVE InsertByIndex(_, _)
InsertByIndex(sorted, x) ==
    IF sorted = << >> THEN << x >>
    ELSE IF x[1] < Head(sorted)[1] THEN << x >> \o sorted
    ELSE << Head(sorted) >> \o InsertByIndex(Tail(sorted), x)

RECURSIVE SortByIndexLoop(_, _)
SortByIndexLoop(todo, sorted) ==
    IF todo = << >> THEN sorted
    ELSE SortByIndexLoop(Tail(todo), InsertByIndex(sorted, Head(todo)))

SortByIndex(all_results) == SortByIndexLoop(all_results, << >>)

\* lines 192-197: extend, sort by index, drop the index
MergeResults(batch_results) ==
    LET all_results == SortByIndex(Flatten(batch_results))
    IN  [k \in 1..Len(all_results) |-> all_results[k][2]]

\* fitness_scores.index(max(fitness_scores)), counted from 1
BestIdx(scores) ==
    CHOOSE i \in 1..Len(scores) :
        /\ \A j \in 1..Len(scores) : ScoreGE(scores[i], scores[j])
        /\ \A j \in 1..(i - 1) : ScoreGT(scores[i], scores[j])

\* the (contract, roi) pairs ranked for the final listing, at most 5
Top5(contracts_with_scores) ==
    LET ranked == SortDesc(contracts_with_scores)
    IN  SubSeq(ranked, 1, Min(5, Len(ranked)))

-----------------------------------------------------------------------------
(* Bounds of the checked runs.                                             *)

MaxPop == 3          \* population sizes 1..MaxPop
MaxGen == 2          \* generation budgets 1..MaxGen
MaxProcs == 2        \* cpu_count() in 1..MaxProcs

\* states of the parent generator when the run starts
Seeds == { << 4 >>, << 8020 >>, << 23858 >>, << 31777, 52000, 911 >> }
KeepChoices == { 0, 500, 1000 }

\* main.py line 32: 5 entries for Covert inputs, 10 otherwise
NumItemsFor(pool, its) ==
    IF its[pool[1].id].real_rarity = "Covert" THEN 5 ELSE 10

GAConfigs ==
    { [engine |-> "ga", population_size |-> p, generations |-> g, elite_size |-> e,
       keep_top_percentage |-> k, num_processes |-> n] :
        p \in 1..MaxPop, g \in 1..MaxGen, e \in 1..MaxPop, k \in KeepChoices,
        n \in 1..MaxProcs }

\* evals, reproduces, migrations: phases completed so far; scored: every
\* (contract, score) of the generations evaluated so far; gen_best: the best
\* (contract, score) of each generation; deduped: duplicates dropped by the
\* last Reproduce; reported: every (contract, roi) the island tasks returned
\* as their best; epoch_best: the global best ROI after each epoch;
\* island_gens: the generations each epoch's tasks ran, one tuple per epoch;
\* new_population: the list the last Reproduce handed to
\* remove_duplicate_contracts; init: the attempts made and the contracts
\* accepted by the first loop of initialize_population; mutations: the calls
\* of mutate in the last Reproduce that returned a changed contract;
\* bucket: the float_factor_int of the last call of ga.evaluate_contract;
\* returned: the tasks of the evaluation under way that have returned, in the
\* order they did
NoHist == [evals |-> 0, reproduces |-> 0, scored |-> {}, gen_best |-> << >>,
           deduped |-> 0, reported |-> {}, epoch_best |-> << >>,
           island_gens |-> << >>, migrations |-> 0, error |-> "",
           new_population |-> << >>, init |-> [attempts |-> 0, accepted |-> 0],
           mutations |-> 0, bucket |-> 0, returned |-> << >>]

InitCommon(cat, rarity) ==
    /\ items = cat.items
    /\ sources = cat.sources
    /\ precomputed_outcomes = precompute_outcomes(cat.items, cat.sources)
    /\ selected_inputs = load_input_items(cat.items, cat.sources, cat.listing,
                                          rarity, FALSE)
    /\ pc = "Init"
    /\ population = << >>
    /\ fitness_scores = << >>
    /\ generation = 0
    /\ top_contracts = << >>
    /\ best_overall_roi = NegInf
    /\ best_overall_contract = << >>
    /\ work_items = << >>
    /\ pending = {}
    /\ results = << >>
    /\ pool_error = ""
    /\ top_5_contracts = << >>
    /\ island_populations = << >>
    /\ migration_epoch = 0
    /\ island_results = << >>
    /\ island_migrants = << >>
    /\ worker = << >>
    /\ hist = NoHist

\* main.py lines 14-25: the catalog is loaded and the Classified pool selected
InitGA ==
    /\ \E cat \in Catalogs : InitCommon(cat, "Classified")
    /\ rng \in Seeds
    /\ cfg \in GAConfigs

num_items == NumItemsFor(selected_inputs, items)

catalogVars == << items, sources, precomputed_outcomes, selected_inputs, cfg >>
islandVars == << island_populations, migration_epoch, island_results,
                 island_migrants, worker >>
evalVars == << work_items, pending, results, pool_error >>

-----------------------------------------------------------------------------
(* genetic.py: run_genetic_algorithm.                                      *)

\* main.py lines 31-32 and genetic.py lines 246-254: the contract size is read
\* off the first pool entry and the initial population is built
GAInitialize ==
    /\ cfg.engine = "ga" /\ pc = "Init"
    /\ LET Failed(error, s) ==
               /\ pc' = "Failed"
               /\ rng' = s
               /\ hist' = [hist EXCEPT !.error = error]
               /\ UNCHANGED population
           Built(p) ==
               IF ~p.ok THEN Failed(p.error, p.r)
               ELSE /\ population' = p.v
                    /\ rng' = p.r
                    /\ hist' = [hist EXCEPT !.init = [attempts |-> p.attempts,
                                                      accepted |-> p.accepted]]
                    /\ pc' = IF cfg.generations > 0 THEN "Evaluate"
                             ELSE "FinalEvaluate"
       IN  IF selected_inputs = << >> THEN Failed("IndexError", rng)
           ELSE Built(initialize_population(selected_inputs, cfg.population_size,
                                            num_items, rng))
    /\ UNCHANGED << catalogVars, islandVars, evalVars, fitness_scores, generation,
                    top_contracts, best_overall_roi, best_overall_contract,
                    top_5_contracts >>

\* evaluate_population_parallel, lines 179-190: cut the batches and hand
\* them to pool.map, which holds one result slot per task
Dispatch ==
    /\ cfg.engine = "ga" /\ pc \in {"Evaluate", "FinalEvaluate"}
    /\ work_items' = WorkItems(population, cfg.num_processes)
    /\ pending' = 1..cfg.num_processes
    /\ results' = [i \in 1..cfg.num_processes |-> << >>]
    /\ pool_error' = ""
    /\ pc' = IF pc = "Evaluate" THEN "Evaluating" ELSE "FinalEvaluating"
    /\ UNCHANGED << catalogVars, islandVars, rng, population, fitness_scores,
                    generation, top_contracts, best_overall_roi,
                    best_overall_contract, top_5_contracts, hist >>

\* one task returns its batch; the tasks finish in any order and pool.map
\* stores a result in the slot of its task unless a task has raised before
WorkerReturns(i) ==
    /\ pc \in {"Evaluating", "FinalEvaluating"}
    /\ i \in pending
    /\ LET Returned(batch_results) ==
               /\ batch_results.ok
               /\ results' = IF pool_error = ""
                             THEN [results EXCEPT ![i] = batch_results.v]
                             ELSE results
       IN  Returned(evaluate_population_worker(work_items[i], items,
                                               precomputed_outcomes))
    /\ pending' = pending \ {i}
    /\ hist' = [hist EXCEPT !.returned = Append(@, i)]
    /\ UNCHANGED << catalogVars, islandVars, rng, pc, population, fitness_scores,
                    generation, top_contracts, best_overall_roi,
                    best_overall_contract, top_5_contracts, work_items,
                    pool_error >>

\* one task raises: pool.map keeps the first exception it receives
WorkerRaises(i) ==
    /\ pc \in {"Evaluating", "FinalEvaluating"}
    /\ i \in pending
    /\ LET Raised(batch_results) ==
               /\ ~batch_results.ok
               /\ pool_error' = IF pool_error = "" THEN batch_results.error
                                ELSE pool_error
       IN  Raised(evaluate_population_worker(work_items[i], items,
                                             precomputed_outcomes))
    /\ pending' = pending \ {i}
    /\ UNCHANGED << catalogVars, islandVars, rng, pc, population, fitness_scores,
                    generation, top_contracts, best_overall_roi,
                    best_overall_contract, top_5_contracts, work_items, results,
                    hist >>

\* variant of PoolRaises: the exception is noted and the evaluation is
\* dispatched again
PoolRaisesRetried ==
    /\ pc \in {"Evaluating", "FinalEvaluating"}
    /\ pending = {} /\ pool_error # ""
    /\ pc' = IF pc = "Evaluating" THEN "Evaluate" ELSE "FinalEvaluate"
    /\ hist' = [hist EXCEPT !.error = pool_error, !.returned = << >>]
    /\ UNCHANGED << catalogVars, islandVars, evalVars, rng, population,
                    fitness_scores, generation, top_contracts, best_overall_roi,
                    best_overall_contract, top_5_contracts >>

\* every task has finished and one of them raised: pool.map re-raises the
\* first exception in the parent and the run ends
PoolRaises ==
    /\ pc \in {"Evaluating", "FinalEvaluating"}
    /\ pending = {} /\ pool_error # ""
    /\ pc' = "Failed"
    /\ hist' = [hist EXCEPT !.error = pool_error, !.returned = << >>]
    /\ UNCHANGED << catalogVars, islandVars, evalVars, rng, population,
                    fitness_scores, generation, top_contracts, best_overall_roi,
                    best_overall_contract, top_5_contracts >>

\* variant of Merge: merging the scores writes into the item catalog
MergeWritingCatalog ==
    /\ pc = "Evaluating" /\ pending = {} /\ pool_error = ""
    /\ fitness_scores' = MergeResults(results)
    /\ pc' = "Select"
    /\ hist' = [hist EXCEPT !.evals = @ + 1, !.returned = << >>]
    /\ items' = [items EXCEPT ![1].offers = 0]
    /\ UNCHANGED << sources, precomputed_outcomes, selected_inputs, cfg,
                    islandVars, evalVars, rng, population, generation,
                    top_contracts, best_overall_roi, best_overall_contract,
                    top_5_contracts >>

\* lines 192-197 inside the generation loop: the merged fitness list
Merge ==
    /\ pc = "Evaluating" /\ pending = {} /\ pool_error = ""
    /\ fitness_scores' = MergeResults(results)
    /\ pc' = "Select"
    /\ hist' = [hist EXCEPT !.evals = @ + 1, !.returned = << >>]
    /\ UNCHANGED << catalogVars, islandVars, evalVars, rng, population, generation,
                    top_contracts, best_overall_roi, best_overall_contract,
                    top_5_contracts >>

\* lines 263-265: the best contract of the generation and its score
GenerationBest(pop, scores) ==
    [contract |-> pop[BestIdx(scores)], score |-> scores[BestIdx(scores)]]

\* variant of RunningBest: the first best recorded is never replaced
RunningBestStale(best, overall) ==
    IF overall.score = NegInf THEN best ELSE overall

\* lines 267-269: the running best after a generation whose best is `best`
RunningBest(best, overall) ==
    IF ScoreGT(best.score, overall.score) THEN best ELSE overall

\* lines 263-281: the generation's best, the running best, the elite
Select ==
    /\ pc = "Select"
    /\ LET overall == RunningBest(GenerationBest(population, fitness_scores),
                           [contract |-> best_overall_contract,
                            score |-> best_overall_roi])
       IN  /\ best_overall_roi' = overall.score
           /\ best_overall_contract' = overall.contract
    /\ top_contracts' = select_top_contracts(population, fitness_scores, cfg.elite_size)
    /\ hist' = [hist EXCEPT
                   !.scored = @ \cup
                       { [contract |-> population[k], score |-> fitness_scores[k]] :
                            k \in 1..Len(population) },
                   !.gen_best = Append(@, GenerationBest(population, fitness_scores))]
    /\ pc' = IF generation < cfg.generations - 1 THEN "Reproduce" ELSE "FinalEvaluate"
    /\ UNCHANGED << catalogVars, islandVars, evalVars, rng, population,
                    fitness_scores, generation, top_5_contracts >>

\* variant of NextPopulation: duplicates are dropped and nothing is added
NextPopulationNoTopUp(new_population, input_items, population_size, k, s) ==
    Value(remove_duplicate_contracts(new_population), s)

\* lines 313-321: deduplicate, top up with random contracts, truncate
NextPopulation(new_population, input_items, population_size, k, s) ==
    LET Truncated(filled) ==
            [ok |-> filled.ok, error |-> filled.error,
             v |-> SubSeq(filled.v, 1, Min(population_size, Len(filled.v))),
             r |-> filled.r]
    IN  Truncated(FillRandom(Value(remove_duplicate_contracts(new_population), s),
                             population_size, input_items, k))

\* lines 282-321: the next generation's population
Reproduce ==
    /\ pc = "Reproduce"
    /\ LET Continue(new_population, next) ==
               /\ population' = next.v
               /\ rng' = next.r
               /\ generation' = generation + 1
               /\ pc' = "Evaluate"
               /\ hist' = [hist EXCEPT
                      !.reproduces = @ + 1,
                      !.deduped = Len(new_population.v)
                          - Len(remove_duplicate_contracts(new_population.v)),
                      !.new_population = new_population.v,
                      !.mutations = new_population.mutations]
           Built(new_population) ==
               IF new_population.ok
               THEN Continue(new_population,
                             NextPopulation(new_population.v, selected_inputs,
                                            cfg.population_size, num_items,
                                            new_population.r))
               ELSE /\ pc' = "Failed"
                    /\ rng' = new_population.r
                    /\ hist' = [hist EXCEPT !.error = new_population.error]
                    /\ UNCHANGED << population, generation >>
           Bred(new_population) ==
               /\ top_contracts' = new_population.top
               /\ Built(new_population)
           From(top) ==
               Bred(NewPopulation(top, selected_inputs, items, num_items,
                                  cfg.population_size, cfg.elite_size,
                                  cfg.keep_top_percentage, rng))
       IN  From(select_top_contracts(population, fitness_scores, cfg.elite_size))
    /\ UNCHANGED << catalogVars, islandVars, evalVars, fitness_scores,
                    best_overall_roi, best_overall_contract, top_5_contracts >>

\* lines 329-344: rank the last population and return the running best
FinalRanking ==
    /\ pc = "FinalEvaluating" /\ pending = {} /\ pool_error = ""
    /\ top_5_contracts' = Top5(Zip(population, MergeResults(results)))
    /\ pc' = "Terminal"
    /\ hist' = [hist EXCEPT !.returned = << >>]
    /\ UNCHANGED << catalogVars, islandVars, evalVars, rng, population,
                    fitness_scores, generation, top_contracts, best_overall_roi,
                    best_overall_contract >>

NextGA ==
    \/ GAInitialize
    \/ Dispatch
    \/ \E i \in 1..MaxProcs : WorkerReturns(i)
    \/ \E i \in 1..MaxProcs : WorkerRaises(i)
    \/ PoolRaises
    \/ Merge
    \/ Select
    \/ Reproduce
    \/ FinalRanking

SpecGA == InitGA /\ [][NextGA]_vars

-----------------------------------------------------------------------------
(* genetic_island.py: run_island_worker, one task per island and epoch.    *)

MaxIslands == 3        \* num_islands in 1..MaxIslands
MaxIslandPop == 2      \* population_per_island in 1..MaxIslandPop
MaxTotalGen == 2       \* total_generations in 1..MaxTotalGen
MigrationSizes == { 0, 1, 2 }    \* migration_size

\* a pool process seeds its own generator from the system when it starts:
\* the states of one epoch's processes are drawn together when the tasks are
\* handed out
WorkerSeeds == { 4242, 9001 }
WorkerSeed(base, i) == << (base + 977 * i) % 2^WordBits >>
\* states of the parent generator when an island run starts
IslandSeeds == { << 8020 >>, << 15939 >> }
\* the catalog and the rarity of the pool handed to the call
PoolInputs ==
    { [cat |-> cat, rarity |-> "Classified"] :
        cat \in { CatalogFull, CatalogHoles, CatalogShort } }
    \cup { [cat |-> CatalogFull, rarity |-> "Covert"] }
\* migration_interval
Intervals == { 1, 2 }

IslandConfigs ==
    { [engine |-> "island", num_islands |-> n, population_per_island |-> p,
       total_generations |-> g, migration_interval |-> m, migration_size |-> z,
       elite_size |-> e, keep_top_percentage |-> 500] :
        n \in 1..MaxIslands, p \in 1..MaxIslandPop, g \in 1..MaxTotalGen,
        m \in Intervals, z \in MigrationSizes, e \in 1..MaxIslandPop }

\* run_island_genetic_algorithm, lines 82-94: the arguments of the call
InitIsland ==
    /\ \E input \in PoolInputs : InitCommon(input.cat, input.rarity)
    /\ rng \in IslandSeeds
    /\ cfg \in IslandConfigs

IdleWorker ==
    [wpc |-> "idle", population |-> << >>, gen |-> 0, best_island_roi |-> NegInf,
     best_island_contract |-> << >>, rng |-> << 0 >>, top_for_migration |-> << >>,
     evaluated |-> << >>]

\* [ga.evaluate_contract(c) for c in population], or the exception raised
EvaluateAll(pop, its, table) ==
    LET Scores(r) == [ok |-> r.ok, error |-> r.error,
                      v |-> [k \in 1..Len(r.v) |-> r.v[k][2]]]
    IN  Scores(EvaluateBatch(pop, its, table, 0, << >>))

\* lines 70-72: deduplicate and top up with random contracts
NextIslandPopulation(new_population, input_items, island_pop_size, k, s) ==
    FillRandom(Value(remove_duplicate_contracts(new_population), s),
               island_pop_size, input_items, k)

\* lines 21-27: the task builds its population
StartedWorker(w, p) ==
    [w EXCEPT !.wpc = "evolve", !.population = p.v, !.rng = p.r]

\* line 31: a generation of the task starts; `evaluated` lists the
\* populations the generations of the task were given to score
Entered(w) == [w EXCEPT !.evaluated = Append(w.evaluated, w.population)]

\* lines 37-42: the task's running best
TrackBest(w, scores) ==
    [w EXCEPT !.best_island_roi =
                  IF ScoreGT(scores[BestIdx(scores)], w.best_island_roi)
                  THEN scores[BestIdx(scores)] ELSE w.best_island_roi,
              !.best_island_contract =
                  IF ScoreGT(scores[BestIdx(scores)], w.best_island_roi)
                  THEN w.population[BestIdx(scores)] ELSE w.best_island_contract]

\* lines 70-72 and the loop step: the task holds the next population
AdvanceWorker(w, next) ==
    [w EXCEPT !.population = next.v, !.rng = next.r, !.gen = w.gen + 1]

\* lines 44-72 once the new population is built, or the exception it
\* raised: the generator of the task's process stays where the draws made
\* before the raise left it
BredWorker(w, new_population, input_items, k, island_pop_size) ==
    LET Raised(st) ==
            [ok |-> FALSE, error |-> st.error, w |-> [w EXCEPT !.rng = st.r]]
        ToppedUp(next) ==
            IF ~next.ok THEN Raised(next)
            ELSE [ok |-> TRUE, error |-> "", w |-> AdvanceWorker(w, next)]
    IN  IF ~new_population.ok THEN Raised(new_population)
        ELSE ToppedUp(NextIslandPopulation(new_population.v, input_items,
                          island_pop_size, k, new_population.r))

\* lines 37-72 once the population is scored, or the exception raised
ScoredWorker(w, scores, input_items, its, k, island_pop_size, elite_size, keep) ==
    IF ~scores.ok
    THEN [ok |-> FALSE, error |-> scores.error, w |-> w]
    ELSE BredWorker(TrackBest(w, scores.v),
                    NewPopulation(select_top_contracts(w.population, scores.v, elite_size),
                                  input_items, its, k, island_pop_size, elite_size,
                                  keep, w.rng),
                    input_items, k, island_pop_size)

\* lines 30-72: one generation of the task, as a function of the task's state
IslandGeneration(w, input_items, its, table, k, island_pop_size, elite_size, keep) ==
    ScoredWorker(Entered(w), EvaluateAll(w.population, its, table), input_items,
                 its, k, island_pop_size, elite_size, keep)

\* lines 74-79 once the last population is scored
RankedWorker(w, scores, elite_size) ==
    IF ~scores.ok
    THEN [ok |-> FALSE, error |-> scores.error, w |-> w]
    ELSE [ok |-> TRUE, error |-> "",
          w |-> [w EXCEPT !.wpc = "done",
                          !.top_for_migration =
                              select_top_contracts(w.population, scores.v,
                                                   Min(5, elite_size))]]

\* lines 74-79: rank the last population and return
IslandReturn(w, its, table, elite_size) ==
    RankedWorker(w, EvaluateAll(w.population, its, table), elite_size)

\* lines 29-79: the generation loop and the return
RECURSIVE Evolve(_, _, _, _, _, _, _, _, _)
RECURSIVE EvolveOn(_, _, _, _, _, _, _, _, _)
Evolve(w, input_items, its, table, k, island_pop_size, generations_per_migration, elite_size, keep) ==
    IF w.gen < generations_per_migration
    THEN EvolveOn(IslandGeneration(w, input_items, its, table, k, island_pop_size,
                                   elite_size, keep),
                  input_items, its, table, k, island_pop_size,
                  generations_per_migration, elite_size, keep)
    ELSE IslandReturn(w, its, table, elite_size)

EvolveOn(g, input_items, its, table, k, island_pop_size, generations_per_migration, elite_size, keep) ==
    IF ~g.ok THEN g
    ELSE Evolve(g.w, input_items, its, table, k, island_pop_size,
                generations_per_migration, elite_size, keep)

\* the whole task: the state it ends in, or the exception it raises
run_island_worker(w, input_items, its, table, k, island_pop_size, generations_per_migration, elite_size, keep) ==
    LET Started(p) ==
            IF ~p.ok THEN [ok |-> FALSE, error |-> p.error, w |-> [w EXCEPT !.rng = p.r]]
            ELSE Evolve(StartedWorker(w, p), input_items, its, table, k,
                        island_pop_size, generations_per_migration, elite_size, keep)
    IN  Started(initialize_population(input_items, island_pop_size, k, w.rng))

\* the task has returned g or raised; pool.map keeps the first exception it
\* receives
WorkerStepped(i, g) ==
    /\ worker' = [worker EXCEPT ![i] = IF g.ok THEN g.w
                                       ELSE [g.w EXCEPT !.wpc = "raised"]]
    /\ pool_error' = IF ~g.ok /\ pool_error = "" THEN g.error ELSE pool_error
    /\ UNCHANGED << catalogVars, work_items, pending, results, rng, pc, population,
                    fitness_scores, generation, top_contracts, best_overall_roi,
                    best_overall_contract, top_5_contracts, island_populations,
                    migration_epoch, island_results, island_migrants, hist >>

\* one island's task runs in its own process; the tasks share no state and
\* finish in any order
WorkerRuns(i) ==
    /\ pc = "Evolving"
    /\ i \in DOMAIN worker /\ worker[i].wpc = "start"
    /\ WorkerStepped(i, run_island_worker(worker[i], selected_inputs, items,
                            precomputed_outcomes, num_items,
                            cfg.population_per_island, cfg.migration_interval,
                            cfg.elite_size, cfg.keep_top_percentage))

\* every task has finished and one of them raised: pool.map re-raises the
\* first exception in the parent and the run ends
IslandPoolRaises ==
    /\ pc = "Evolving"
    /\ \A i \in DOMAIN worker : worker[i].wpc \in {"done", "raised"}
    /\ pool_error # ""
    /\ pc' = "Failed"
    /\ hist' = [hist EXCEPT !.error = pool_error]
    /\ UNCHANGED << catalogVars, evalVars, islandVars, rng, population,
                    fitness_scores, generation, top_contracts, best_overall_roi,
                    best_overall_contract, top_5_contracts >>

-----------------------------------------------------------------------------
(* genetic_island.py: run_island_genetic_algorithm.                        *)

\* num_migrations = total_generations // migration_interval
NumMigrations == cfg.total_generations \div cfg.migration_interval

\* lines 130-132: one population per island, drawn one after the other
RECURSIVE InitIslands(_, _, _, _, _, _)
InitIslands(n, acc, input_items, population_per_island, k, s) ==
    IF n = 0 THEN Value(acc, s)
    ELSE LET Drawn(island_pop) ==
                 IF ~island_pop.ok THEN Exception(island_pop.error, island_pop.r)
                 ELSE InitIslands(n - 1, Append(acc, island_pop.v), input_items,
                                  population_per_island, k, island_pop.r)
         IN  Drawn(initialize_population(input_items, population_per_island, k, s))

\* lines 120-134
IslandInitialize ==
    /\ cfg.engine = "island" /\ pc = "Init"
    /\ LET Built(p) ==
               /\ island_populations' = IF p.ok THEN p.v ELSE island_populations
               /\ rng' = p.r
               /\ hist' = IF p.ok THEN hist ELSE [hist EXCEPT !.error = p.error]
               /\ pc' = IF ~p.ok THEN "Failed"
                        ELSE IF NumMigrations > 0 THEN "Epoch" ELSE "IslandFinal"
       IN  Built(InitIslands(cfg.num_islands, << >>, selected_inputs,
                             cfg.population_per_island, num_items, rng))
    /\ migration_epoch' = 0
    /\ UNCHANGED << catalogVars, evalVars, population, fitness_scores, generation,
                    top_contracts, best_overall_roi, best_overall_contract,
                    top_5_contracts, island_results, island_migrants, worker >>

\* lines 141-159: one task per island is handed to the pool
StartEpoch ==
    /\ cfg.engine = "island" /\ pc = "Epoch"
    /\ \E base \in WorkerSeeds :
          worker' = [i \in 1..cfg.num_islands |->
                        [IdleWorker EXCEPT !.wpc = "start", !.rng = WorkerSeed(base, i)]]
    /\ pool_error' = ""
    /\ pc' = "Evolving"
    /\ UNCHANGED << catalogVars, work_items, pending, results, rng, population, fitness_scores,
                    generation, top_contracts, best_overall_roi,
                    best_overall_contract, top_5_contracts, island_populations,
                    migration_epoch, island_results, island_migrants, hist >>

\* variant of BestAfter: only the first island's result is compared
BestAfterFirst(res, k, best) ==
    RunningBest([contract |-> res[1].best_contract, score |-> res[1].best_roi], best)

\* the running best after the results 1..k have been processed
RECURSIVE BestAfter(_, _, _)
BestAfter(res, k, best) ==
    IF k > Len(res) THEN best
    ELSE BestAfter(res, k + 1,
                   RunningBest([contract |-> res[k].best_contract,
                                score |-> res[k].best_roi], best))

\* lines 159-175: pool.map returns the results in island order; collect the
\* migrants and update the running best
ProcessResults ==
    /\ pc = "Evolving"
    /\ \A i \in DOMAIN worker : worker[i].wpc = "done"
    /\ pool_error = ""
    /\ LET res == [i \in 1..cfg.num_islands |->
                      [island_id |-> i - 1,
                       best_contract |-> worker[i].best_island_contract,
                       best_roi |-> worker[i].best_island_roi,
                       top_contracts |-> worker[i].top_for_migration]]
           best == BestAfter(res, 1, [contract |-> best_overall_contract,
                                      score |-> best_overall_roi])
       IN  /\ island_results' = res
           /\ island_migrants' =
                 [i \in 1..cfg.num_islands |->
                     SubSeq(res[i].top_contracts, 1,
                            Min(cfg.migration_size, Len(res[i].top_contracts)))]
           /\ best_overall_roi' = best.score
           /\ best_overall_contract' = best.contract
           /\ hist' = [hist EXCEPT
                          !.reported = @ \cup
                              { [contract |-> res[i].best_contract,
                                 score |-> res[i].best_roi] : i \in 1..cfg.num_islands },
                          !.epoch_best = Append(@, best.score),
                          !.island_gens =
                              Append(@, [i \in 1..cfg.num_islands |-> worker[i].gen])]
    /\ pc' = IF migration_epoch < NumMigrations - 1 THEN "Migrate" ELSE "EpochEnd"
    /\ UNCHANGED << catalogVars, evalVars, rng, population, fitness_scores,
                    generation, top_contracts, top_5_contracts, island_populations,
                    migration_epoch, worker >>

\* variant of MigrateLoop: a full fresh population is drawn before the
\* migrants are added
RECURSIVE MigrateLoopFull(_, _, _, _, _, _, _)
MigrateLoopFull(i, pops, all_migrants, input_items, population_per_island, k, s) ==
    IF i > Len(pops) THEN Value(pops, s)
    ELSE LET Drawn(new_pop) ==
                 IF ~new_pop.ok THEN Exception(new_pop.error, new_pop.r)
                 ELSE MigrateLoopFull(i + 1,
                          [pops EXCEPT ![i] = new_pop.v
                                              \o all_migrants[((i - 2) % Len(pops)) + 1]],
                          all_migrants, input_items, population_per_island, k,
                          new_pop.r)
         IN  Drawn(initialize_population(input_items, population_per_island, k, s))

\* lines 182-195 for the islands n, n+1, ...: fresh contracts plus the
\* migrants of the previous island of the ring
RECURSIVE MigrateLoop(_, _, _, _, _, _, _)
MigrateLoop(i, pops, all_migrants, input_items, population_per_island, k, s) ==
    IF i > Len(pops) THEN Value(pops, s)
    ELSE LET num_islands == Len(pops)
             prev_island == ((i - 1) - 1) % num_islands
             migrants == all_migrants[prev_island + 1]
             Drawn(new_pop) ==
                 IF ~new_pop.ok THEN Exception(new_pop.error, new_pop.r)
                 ELSE MigrateLoop(i + 1, [pops EXCEPT ![i] = new_pop.v \o migrants],
                                  all_migrants, input_items, population_per_island,
                                  k, new_pop.r)
         IN  Drawn(initialize_population(input_items,
                       population_per_island - Len(migrants), k, s))

\* lines 178-195: ring migration, on every epoch but the last
Migrate ==
    /\ pc = "Migrate"
    /\ LET Moved(m) ==
               /\ island_populations' = IF m.ok THEN m.v ELSE island_populations
               /\ rng' = m.r
               /\ migration_epoch' = IF m.ok THEN migration_epoch + 1
                                     ELSE migration_epoch
               /\ hist' = IF m.ok THEN [hist EXCEPT !.migrations = @ + 1]
                          ELSE [hist EXCEPT !.error = m.error]
               /\ pc' = IF m.ok THEN "Epoch" ELSE "Failed"
       IN  Moved(MigrateLoop(1, island_populations, island_migrants, selected_inputs,
                             cfg.population_per_island, num_items, rng))
    /\ UNCHANGED << catalogVars, evalVars, population, fitness_scores, generation,
                    top_contracts, best_overall_roi, best_overall_contract,
                    top_5_contracts, island_results, island_migrants, worker >>

\* line 178 on the last epoch: no migration, the epoch loop ends
SkipMigration ==
    /\ pc = "EpochEnd"
    /\ migration_epoch' = migration_epoch + 1
    /\ pc' = "IslandFinal"
    /\ UNCHANGED << catalogVars, evalVars, rng, population, fitness_scores,
                    generation, top_contracts, best_overall_roi,
                    best_overall_contract, top_5_contracts, island_populations,
                    island_results, island_migrants, worker, hist >>

\* [(c, ga.evaluate_contract(c)) for c in top_5]
WithScores(contracts, its, table) ==
    Zip(contracts, EvaluateAll(contracts, its, table).v)

\* lines 209-211 for one island, followed by the later islands' entries
GatherStep(island_pop, scores, rest, its, table) ==
    IF ~scores.ok THEN [ok |-> FALSE, error |-> scores.error, v |-> << >>]
    ELSE IF ~rest.ok THEN rest
    ELSE [ok |-> TRUE, error |-> "",
          v |-> WithScores(select_top_contracts(island_pop, scores.v, 5), its, table)
                \o rest.v]

\* lines 208-211 for the islands k, k+1, ...: each island's top 5 with scores
RECURSIVE GatherBest(_, _, _, _)
GatherBest(pops, k, its, table) ==
    IF k > Len(pops) THEN [ok |-> TRUE, error |-> "", v |-> << >>]
    ELSE GatherStep(pops[k], EvaluateAll(pops[k], its, table),
                    GatherBest(pops, k + 1, its, table), its, table)

\* the listing, or the failure of the run
Ranked(all_best_contracts) ==
    /\ top_5_contracts' = IF all_best_contracts.ok THEN Top5(all_best_contracts.v)
                          ELSE top_5_contracts
    /\ pc' = IF all_best_contracts.ok THEN "Terminal" ELSE "Failed"
    /\ hist' = IF all_best_contracts.ok THEN hist
               ELSE [hist EXCEPT !.error = all_best_contracts.error]

\* lines 204-224: the final ranking over island_populations
IslandFinalRanking ==
    /\ cfg.engine = "island" /\ pc = "IslandFinal"
    /\ Ranked(GatherBest(island_populations, 1, items, precomputed_outcomes))
    /\ UNCHANGED << catalogVars, evalVars, rng, population, fitness_scores,
                    generation, top_contracts, best_overall_roi,
                    best_overall_contract, island_populations, migration_epoch,
                    island_results, island_migrants, worker >>

NextIsland ==
    \/ IslandInitialize
    \/ StartEpoch
    \/ \E i \in 1..MaxIslands : WorkerRuns(i)
    \/ IslandPoolRaises
    \/ ProcessResults
    \/ Migrate
    \/ SkipMigration
    \/ IslandFinalRanking

SpecIsland == InitIsland /\ [][NextIsland]_vars

Init == InitGA \/ InitIsland
Next == NextGA \/ NextIsland
Spec == Init /\ [][Next]_vars

-----------------------------------------------------------------------------
(* Properties of the parallel evaluation and of the generational engine.   *)

Roi(contract) == calculate_contract_roi_fast(contract, items, precomputed_outcomes).roi

\* the batches are contiguous slices that cover the population exactly once
BatchesPartition ==
    /\ Flatten([i \in 1..Len(work_items) |-> work_items[i].batch]) = population
    /\ \A i \in 1..Len(work_items) :
          work_items[i].batch_start_idx =
              Len(Flatten([j \in 1..(i - 1) |-> work_items[j].batch]))

\* `scores` has one score per contract of the population, in its order
Aligned(scores) ==
    /\ Len(scores) = Len(population)
    /\ \A k \in 1..Len(population) : scores[k] = Roi(population[k])

\* C1: whatever the number of worker processes and the order in which the
\* batches return, the batches cut by evaluate_population_parallel are
\* contiguous and cover every index once, and the list it returns has one
\* score per contract with element i the ROI of population[i].
C1_FitnessAligned ==
    /\ pc \in {"Evaluating", "FinalEvaluating"} => BatchesPartition
    /\ pc \in {"Evaluating", "FinalEvaluating"} /\ pending = {} /\ pool_error = ""
          => Aligned(MergeResults(results))
    /\ pc = "Select" => Aligned(fitness_scores)

\* a population that the processes do not divide: the second task returned
\* before the first, both batches are scored, with different scores, and
\* pool.map is about to return
C1_Witness ==
    /\ pc = "Evaluating" /\ pending = {} /\ pool_error = ""
    /\ hist.returned = << 2, 1 >>
    /\ results[1] # << >> /\ results[2] # << >>
    /\ results[1][1][2] # results[2][1][2]
    /\ Len(population) % cfg.num_processes # 0

\* the pool has at least K entries
PoolSuffices == selected_inputs # << >> /\ Len(selected_inputs) >= num_items

\* C2: with eliteSize <= populationSize and a pool of at least K entries,
\* every population handed to an Evaluate phase has exactly populationSize
\* contracts in run_genetic_algorithm, and exactly island_pop_size contracts
\* in every generation of every run_island_worker task.
C2_PopulationSize ==
    /\ cfg.engine = "ga" /\ cfg.elite_size <= cfg.population_size
            /\ PoolSuffices
            /\ pc \in {"Evaluate", "Evaluating", "Select"}
          => Len(population) = cfg.population_size
    /\ cfg.engine = "island" /\ cfg.elite_size <= cfg.population_per_island
            /\ PoolSuffices
          => \A i \in DOMAIN worker : \A g \in 1..Len(worker[i].evaluated) :
                Len(worker[i].evaluated[g]) = cfg.population_per_island

\* a later generation is about to be evaluated after Reproduce dropped
\* duplicates and topped the population up
C2_Witness ==
    /\ cfg.engine = "ga" /\ pc = "Evaluate"
    /\ generation >= 1
    /\ hist.deduped > 0
    /\ cfg.population_size >= 3

\* the highest score among the contracts scored so far
IsMaxScore(roi, scored) ==
    /\ \E r \in scored : r.score = roi
    /\ \A r \in scored : ScoreGE(roi, r.score)

RunningBestIsMax ==
    hist.scored # {} =>
        /\ IsMaxScore(best_overall_roi, hist.scored)
        /\ [contract |-> best_overall_contract, score |-> best_overall_roi]
               \in hist.scored

\* C3: after every generation of run_genetic_algorithm the running best ROI
\* is the maximum score over all contracts evaluated in all generations so
\* far, the running best contract obtained that score, and the running best
\* ROI (the value returned at Terminal) never decreases.
C3_RunningBest ==
    /\ []RunningBestIsMax
    /\ [][ScoreGE(best_overall_roi', best_overall_roi)]_vars

\* the second generation's best beat the first one's and became the running best
C3_Witness ==
    /\ Len(hist.gen_best) >= 2
    /\ ScoreGT(hist.gen_best[2].score, hist.gen_best[1].score)
    /\ best_overall_roi = hist.gen_best[2].score

\* C4 (as claimed): a run with budget G goes through exactly G in-loop
\* Evaluate phases and G-1 Reproduce phases and always ends in Terminal; it
\* never stops anywhere else.
C4_AlwaysReachesTerminal ==
    cfg.engine = "ga" /\ items = CatalogFull.items
            /\ cfg.elite_size <= cfg.population_size =>
        /\ pc # "Failed"
        /\ pc = "Terminal" =>
              /\ hist.evals = cfg.generations
              /\ hist.reproduces = cfg.generations - 1

\* C5: the highest-fitness contract of a non-final generation g is, entry for
\* entry, a member of the population evaluated in generation g+1.
C5_EliteKept ==
    cfg.engine = "ga" /\ generation >= 1 /\ pc \in {"Evaluate", "Evaluating", "Select"}
        => \E k \in 1..Len(population) :
              population[k] = hist.gen_best[generation].contract

\* generation g+1 has been evaluated after a Reproduce that dropped duplicates
C5_Witness ==
    /\ cfg.engine = "ga" /\ pc = "Select"
    /\ generation >= 1
    /\ hist.deduped > 0
    /\ cfg.elite_size >= 2

-----------------------------------------------------------------------------
(* Properties of the island engine.                                        *)

\* the island whose migrants island i receives, both counted from 1
PrevIsland(i) == ((i - 1 - 1) % cfg.num_islands) + 1

\* the last n elements of a sequence
LastN(seq, n) == SubSeq(seq, Len(seq) - n + 1, Len(seq))

\* a migration step has just built island_populations from island_migrants
Migrated == cfg.engine = "island" /\ hist.migrations >= 1 /\ pc \in {"Epoch", "Evolving"}

\* C6 (as claimed): after the migration step of a non-final epoch, island i
\* holds populationPerIsland - migrationSize fresh contracts followed by
\* exactly migrationSize migrants, the top-ranked contracts island (i-1) mod
\* numIslands returned in that epoch; the final epoch does not migrate.
\* Stated for the migration sizes an island can hold.
C6_ExactlyMigrationSize ==
    /\ Migrated /\ cfg.migration_size <= cfg.population_per_island =>
          \A i \in 1..cfg.num_islands :
              /\ Len(island_migrants[PrevIsland(i)]) = cfg.migration_size
              /\ Len(island_populations[i]) = cfg.population_per_island
              /\ LastN(island_populations[i], cfg.migration_size)
                     = SubSeq(island_results[PrevIsland(i)].top_contracts, 1,
                              cfg.migration_size)
    /\ pc \in {"IslandFinal", "Terminal"} /\ cfg.engine = "island" /\ NumMigrations > 0
          => hist.migrations = NumMigrations - 1

\* C7: once the islands are initialised, every island holds exactly
\* populationPerIsland contracts before and after every migration step, so
\* the islands hold numIslands x populationPerIsland contracts in total.
C7_PopulationConserved ==
    cfg.engine = "island" /\ island_populations # << >> =>
        /\ Len(island_populations) = cfg.num_islands
        /\ \A i \in 1..cfg.num_islands :
              Len(island_populations[i]) = cfg.population_per_island

\* islands of a ring of three have received migrants, with migration_size
\* above the island population
C7_Witness ==
    /\ Migrated
    /\ cfg.num_islands = 3
    /\ cfg.migration_size > cfg.population_per_island
    /\ \A i \in 1..cfg.num_islands : Len(island_migrants[i]) >= 1

\* C8 (as claimed): in every epoch after the first, the population an
\* island's task evaluates in its first generation is the one the preceding
\* migration step assembled for that island, so it contains the migrants
\* the island received.
C8_StartsFromMigrated ==
    Migrated /\ pc = "Evolving" =>
        \A i \in DOMAIN worker :
            worker[i].evaluated # << >>
                => worker[i].evaluated[1] = island_populations[i]

\* C9: after every epoch the global best ROI is the maximum of the bests the
\* island tasks have reported so far, the global best contract was reported
\* with that ROI, and the global best ROI never decreases.
GlobalBestIsMax ==
    hist.reported # {} =>
        /\ IsMaxScore(best_overall_roi, hist.reported)
        /\ [contract |-> best_overall_contract, score |-> best_overall_roi]
               \in hist.reported

C9_GlobalBest ==
    /\ []GlobalBestIsMax
    /\ [][ScoreGE(best_overall_roi', best_overall_roi)]_vars

\* the second epoch improved the global best, and the best of the first
\* epoch did not come from the first island
C9_Witness ==
    /\ cfg.engine = "island"
    /\ Len(hist.epoch_best) >= 2
    /\ ScoreGT(hist.epoch_best[2], hist.epoch_best[1])
    /\ \E i \in 2..cfg.num_islands :
          /\ ScoreGT(island_results[i].best_roi, island_results[1].best_roi)
          /\ best_overall_contract = island_results[i].best_contract

\* C10 (as claimed): the contracts of the final listing come from the
\* populations the islands' tasks held at the end of their last generation;
\* the listing has at most 5 entries in descending ROI order.
C10_RanksTerminalPopulations ==
    cfg.engine = "island" /\ pc = "Terminal" /\ NumMigrations > 0 =>
        /\ Len(top_5_contracts) <= 5
        /\ \A k \in 1..(Len(top_5_contracts) - 1) :
              ScoreGE(top_5_contracts[k].score, top_5_contracts[k + 1].score)
        /\ \A k \in 1..Len(top_5_contracts) :
              \E i \in DOMAIN worker :
                  top_5_contracts[k].contract \in Range(worker[i].population)

\* the generations island i has run in the epochs 1..e
RECURSIVE GenerationsRun(_, _)
GenerationsRun(i, e) ==
    IF e = 0 THEN 0 ELSE GenerationsRun(i, e - 1) + hist.island_gens[e][i]

\* C11 (as claimed): when run_island_genetic_algorithm ends, every island has
\* run exactly total_generations generations in all, whatever
\* total_generations >= 1 and migration_interval >= 1 are.
C11_RunsTotalGenerations ==
    cfg.engine = "island" /\ pc = "Terminal" =>
        \A i \in 1..cfg.num_islands :
            GenerationsRun(i, Len(hist.island_gens)) = cfg.total_generations

-----------------------------------------------------------------------------
(* The fitness function on its own: calculate_contract_roi_fast applied to *)
(* contracts drawn from a bounded set.                                     *)

MaxK == 3       \* contracts of 1..MaxK entries

\* two crates that share an input: crate_1 yields items 4 and 5, both at
\* bucket 7 and item 5 alone above; crate_2 yields item 6 and the illiquid
\* item 7. Item 3 has no price and a nominal range of 0.06..0.80.
CatalogTwoCrates ==
    [items |-> << Item(1, "Covert", 100, 100, 0, 1000, 0, 1000, << "crate_1" >>),
                  Item(2, "Covert", 120, 80, 0, 500, 0, 500, << "crate_1", "crate_2" >>),
                  Item(3, "Covert", 0, 100, 60, 800, 60, 800, << "crate_2" >>),
                  Item(4, "Gold", 700, 100, 0, 1000, 0, 70, << "crate_1" >>),
                  Item(5, "Gold", 400, 100, 0, 1000, 70, 1000, << "crate_1" >>),
                  Item(6, "Gold", 300, 100, 0, 1000, 0, 1000, << "crate_2" >>),
                  Item(7, "Gold", 900, 10, 0, 1000, 0, 1000, << "crate_2" >>) >>,
     sources |-> [s \in {"crate_1", "crate_2"} |->
                    [items |-> IF s = "crate_1" THEN << 1, 2, 4, 5 >>
                               ELSE << 2, 3, 6, 7 >>]],
     listing |-> << 1, 2, 3, 4, 5, 6, 7 >>]

RoiCatalogs == { CatalogTwoCrates, CatalogHoles }

\* the floats (in thousandths) the entries of an item are drawn with: the
\* ends of its nominal range, two points at a hundredth of it (7% and 37%
\* of the range) and one a thousandth above a hundredth
EntryFloats(item) ==
    LET lo == ItemMin(item)
        range_val == ItemMax(item) - ItemMin(item)
    IN  { lo, lo + (7 * range_val) \div 100,
          lo + (37 * range_val) \div 100, lo + (37 * range_val) \div 100 + 1,
          lo + range_val }

\* the contracts of 1..MaxK entries {'id', 'float', 'price'} over the input
\* items of a catalog
RoiContracts(its) ==
    LET entries == UNION { { [id |-> id, float |-> f, price |-> its[id].price] :
                               f \in EntryFloats(its[id]) } :
                           id \in { i \in DOMAIN its : its[i].real_rarity = "Covert" } }
    IN  UNION { [1..k -> entries] : k \in 1..MaxK }

InitRoi ==
    /\ \E cat \in RoiCatalogs :
          /\ items = cat.items
          /\ sources = cat.sources
          /\ precomputed_outcomes = precompute_outcomes(cat.items, cat.sources)
          /\ selected_inputs = load_input_items(cat.items, cat.sources, cat.listing,
                                                "Covert", FALSE)
          /\ \E contract \in RoiContracts(cat.items) : population = << contract >>
    /\ cfg = [engine |-> "roi"]
    /\ rng = << 0 >>
    /\ pc = "Call"
    /\ fitness_scores = << >>
    /\ generation = 0
    /\ top_contracts = << >>
    /\ best_overall_roi = NegInf
    /\ best_overall_contract = << >>
    /\ work_items = << >>
    /\ pending = {}
    /\ results = << >>
    /\ pool_error = ""
    /\ top_5_contracts = << >>
    /\ island_populations = << >>
    /\ migration_epoch = 0
    /\ island_results = << >>
    /\ island_migrants = << >>
    /\ worker = << >>
    /\ hist = NoHist

\* variant of EvaluateContract: a division by a cost of 0 yields a number
EvaluateContractUnguarded ==
    /\ cfg.engine = "roi" /\ pc = "Call"
    /\ LET Outcome(r) ==
               /\ fitness_scores' = IF r.ok THEN << r.roi >>
                                    ELSE IF r.error = "ZeroDivisionError"
                                    THEN << Score(RatInt(0), DZero) >> ELSE << >>
               /\ pc' = IF r.ok \/ r.error = "ZeroDivisionError"
                        THEN "Returned" ELSE "Raised"
               /\ hist' = [hist EXCEPT !.error = IF r.ok THEN "" ELSE r.error,
                                        !.bucket = r.float_factor_int]
       IN  Outcome(calculate_contract_roi_fast(population[1], items, precomputed_outcomes))
    /\ UNCHANGED << catalogVars, evalVars, islandVars, rng, population, generation,
                    top_contracts, best_overall_roi, best_overall_contract,
                    top_5_contracts >>

\* ga.evaluate_contract(contract): the ROI is returned or the call raises
EvaluateContract ==
    /\ cfg.engine = "roi" /\ pc = "Call"
    /\ LET Outcome(r) ==
               /\ fitness_scores' = IF r.ok THEN << r.roi >> ELSE << >>
               /\ pc' = IF r.ok THEN "Returned" ELSE "Raised"
               /\ hist' = [hist EXCEPT !.error = IF r.ok THEN "" ELSE r.error,
                                        !.bucket = r.float_factor_int]
       IN  Outcome(calculate_contract_roi_fast(population[1], items, precomputed_outcomes))
    /\ UNCHANGED << catalogVars, evalVars, islandVars, rng, population, generation,
                    top_contracts, best_overall_roi, best_overall_contract,
                    top_5_contracts >>

NextRoi == EvaluateContract

SpecRoi == InitRoi /\ [][NextRoi]_vars

\* the contract handed to calculate_contract_roi_fast
TheContract == population[1]

\* the number of entries of the contract whose item belongs to source_id
CountSource(source_id) ==
    Cardinality({ k \in 1..Len(TheContract) :
                    source_id \in Range(items[TheContract[k].id].sources) })

\* the sources at least one entry of the contract belongs to
ContractSources == { source_id \in DOMAIN sources : CountSource(source_id) > 0 }

\* the bucket the call consulted
TheBucket == hist.bucket

\* every key the call looks up is in the table
KeysExist ==
    \A source_id \in ContractSources :
        HasKey(precomputed_outcomes, "Covert", FALSE, source_id, TheBucket)

\* element 0 of the bucket of source_id
MeanPrice(source_id) == precomputed_outcomes["Covert"][FALSE][source_id][TheBucket][1]

\* the sum over the sources S of (count_source / K) x meanPrice
RECURSIVE WeightedMeans(_)
WeightedMeans(S) ==
    IF S = {} THEN RatInt(0)
    ELSE LET source_id == CHOOSE x \in S : TRUE
         IN  RatAdd(RatMul(Rat(CountSource(source_id), Len(TheContract)),
                           MeanPrice(source_id)),
                    WeightedMeans(S \ {source_id}))

\* the Gold items of source_id whose float at the bucket is in their real range
Reachable(source_id) ==
    { id \in Range(sources[source_id].items) :
        /\ items[id].real_rarity = "Gold"
        /\ LET final_float == TheBucket * (ItemMax(items[id]) - ItemMin(items[id]))
                                  + 100 * ItemMin(items[id])
           IN  /\ 100 * items[id].real_min_float <= final_float
               /\ final_float <= 100 * items[id].real_max_float }

\* the sum of the prices the outcomes S are stored with
RECURSIVE StoredPrices(_)
StoredPrices(S) ==
    IF S = {} THEN 0
    ELSE LET id == CHOOSE x \in S : TRUE
         IN  (IF items[id].offers > MINIMUM_OFFERS THEN items[id].price ELSE 0)
                 + StoredPrices(S \ {id})

\* (expected_value - total_cost) / total_cost x 100
RoiOf(expected_value, total_cost) ==
    RatMul(RatDiv(RatSub(expected_value, RatInt(total_cost)), RatInt(total_cost)),
           RatInt(100))

\* the float is within 2^-30 of the fraction q
Near(float, q) ==
    DCmp([Float(<< "-", << "val", float >>,
                        << "/", << "int", q.n >>, << "int", q.d >> >> >>)
             EXCEPT !.s = 1],
         [s |-> 1, m |-> << 1 >>, e |-> -30]) <= 0

\* C12: for a contract whose lookup keys exist and whose total cost is
\* positive, calculate_contract_roi_fast returns (expected_value - total_cost)
\* / total_cost x 100, to the precision of a float, with expected_value the
\* sum over the sources of (count_source / K) x meanPrice, an item counting
\* once for each of its sources; for a contract drawn from one source,
\* expected_value is the mean price of that source's reachable outcomes at
\* the bucket.
C12_RoiFormula ==
    cfg.engine = "roi" /\ pc # "Call" /\ KeysExist /\ SumPrices(TheContract) > 0 =>
        /\ pc = "Returned"
        /\ Near(fitness_scores[1].roi,
                RoiOf(WeightedMeans(ContractSources), SumPrices(TheContract)))
        /\ \A source_id \in DOMAIN sources :
              ContractSources = {source_id} =>
                  Near(fitness_scores[1].roi,
                       RoiOf(Rat(StoredPrices(Reachable(source_id)),
                                 Cardinality(Reachable(source_id))),
                             SumPrices(TheContract)))

\* a contract of three entries returned its ROI: one of its items belongs to
\* both crates, and the two crates' buckets have different mean prices
C12_Witness ==
    /\ cfg.engine = "roi" /\ pc = "Returned"
    /\ Len(TheContract) = 3
    /\ CountSource("crate_1") = 2 /\ CountSource("crate_2") = 2
    /\ MeanPrice("crate_1") # MeanPrice("crate_2")

-----------------------------------------------------------------------------
(* genetic.py: remove_duplicate_contracts on the lists Reproduce builds.   *)

\* the positions of P that hold the first contract of their signature
FirstOccurrences(P) ==
    { i \in 1..Len(P) :
        \A j \in 1..(i - 1) : normalize_contract(P[j]) # normalize_contract(P[i]) }

\* the subsequence of P at the positions S, in the order of P
RECURSIVE SubsequenceAt(_, _, _)
SubsequenceAt(P, S, i) ==
    IF i > Len(P) THEN << >>
    ELSE (IF i \in S THEN << P[i] >> ELSE << >>) \o SubsequenceAt(P, S, i + 1)

\* C21: remove_duplicate_contracts(P) is the subsequence of P made of the
\* first contract of each signature, in the order of P, its signatures are
\* pairwise distinct, and applying it twice gives what applying it once gives.
C21_FirstOccurrences ==
    LET P == hist.new_population
        U == remove_duplicate_contracts(P)
    IN  /\ U = SubsequenceAt(P, FirstOccurrences(P), 1)
        /\ \A i, j \in 1..Len(U) :
              i # j => normalize_contract(U[i]) # normalize_contract(U[j])
        /\ remove_duplicate_contracts(U) = U

\* Reproduce built a list of three contracts in which the third repeats the
\* signature of an earlier one and the first two differ
C21_Witness ==
    /\ hist.reproduces > 0
    /\ Len(hist.new_population) = 3
    /\ FirstOccurrences(hist.new_population) = {1, 2}

-----------------------------------------------------------------------------
(* genetic.py: initialize_population on its own, for populations larger    *)
(* than the number of distinct contracts of the pool.                      *)

MaxInitPop == 7     \* requested sizes 0..MaxInitPop

InitPopulationInputs ==
    /\ \E input \in PoolInputs : InitCommon(input.cat, input.rarity)
    /\ rng \in Seeds
    /\ cfg \in { [engine |-> "init", population_size |-> n] : n \in 0..MaxInitPop }

\* ga.initialize_population(input_items, population_size)
InitializePopulation ==
    /\ cfg.engine = "init" /\ pc = "Init"
    /\ LET Built(p) ==
               /\ population' = p.v
               /\ rng' = p.r
               /\ hist' = [hist EXCEPT !.init = [attempts |-> p.attempts,
                                                 accepted |-> p.accepted],
                                       !.error = p.error]
               /\ pc' = IF p.ok THEN "Returned" ELSE "Raised"
       IN  Built(initialize_population(selected_inputs, cfg.population_size,
                                       num_items, rng))
    /\ UNCHANGED << catalogVars, islandVars, evalVars, fitness_scores, generation,
                    top_contracts, best_overall_roi, best_overall_contract,
                    top_5_contracts >>

SpecInitPop == InitPopulationInputs /\ [][InitializePopulation]_vars

\* the signatures of the first n contracts of pop are pairwise distinct
DistinctPrefix(pop, n) ==
    \A i, j \in 1..n : i # j => normalize_contract(pop[i]) # normalize_contract(pop[j])

\* C22: for a pool of at least K entries and a requested size n >= 0,
\* initialize_population returns: it gives exactly n contracts after at most
\* 10 x n uniqueness-checked attempts, the contracts accepted by those
\* attempts have pairwise distinct signatures, and contracts are appended
\* after them only when the attempts ran out before n were accepted.
C22_InitializePopulation ==
    cfg.engine = "init" /\ PoolSuffices =>
        /\ pc # "Raised"
        /\ pc = "Returned" =>
              /\ Len(population) = cfg.population_size
              /\ hist.init.attempts <= 10 * cfg.population_size
              /\ hist.init.accepted <= Len(population)
              /\ DistinctPrefix(population, hist.init.accepted)
              /\ hist.init.accepted < Len(population) =>
                    hist.init.attempts = 10 * cfg.population_size

\* seven contracts were requested from a pool that has six distinct ones:
\* all 70 attempts were made, six contracts were accepted and the seventh,
\* appended afterwards, repeats one of them
C22_Witness ==
    /\ cfg.engine = "init" /\ pc = "Returned"
    /\ cfg.population_size = 7
    /\ hist.init.attempts = 70 /\ hist.init.accepted = 6
    /\ Len(population) = 7
    /\ ~DistinctPrefix(population, 7)

-----------------------------------------------------------------------------
(* genetic.py: the float re-roll of mutate.                                *)

\* C23: when the float re-roll branch of mutate is taken, mutate completes
\* normally and returns the contract with one entry replaced by an entry of
\* the same item at one of its three floats: no Reproduce phase ends with the
\* TypeError of that branch.
C23_RerollCompletes ==
    ~(pc = "Failed" /\ hist.error = "TypeError")

-----------------------------------------------------------------------------
(* genetic.py, genetic_island.py: the size of the contracts.               *)

\* every contract of the list has k entries
AllOfSize(contracts, k) == \A c \in 1..Len(contracts) : Len(contracts[c]) = k

\* entries is made of n entries of parent1 followed by k - n of parent2
SplitAt(entries, parent1, parent2, n) ==
    /\ \A e \in 1..n : entries[e] \in Range(parent1)
    /\ \A e \in (n + 1)..Len(entries) : entries[e] \in Range(parent2)

\* the pool is made of Covert items
CovertPool ==
    \A e \in 1..Len(selected_inputs) :
        items[selected_inputs[e].id].real_rarity = "Covert"

\* C24: every contract of every population of either engine has exactly K
\* entries, K = 5 for Covert inputs and 10 otherwise: the sampled contracts,
\* the children of crossover, made of n entries of parent A with n in
\* 1..K/2-1 and K-n of parent B, and the contracts mutate returns.
C24_ContractSize ==
    selected_inputs # << >> =>
    /\ num_items = (IF CovertPool THEN 5 ELSE 10)
    /\ AllOfSize(population, num_items)
    /\ AllOfSize(top_contracts, num_items)
    /\ \A i \in DOMAIN island_populations :
          AllOfSize(island_populations[i], num_items)
    /\ \A i \in DOMAIN worker : AllOfSize(worker[i].population, num_items)
    /\ pc = "Reproduce" =>
          \A a, b \in 1..Len(top_contracts) :
              LET child == crossover(top_contracts[a], top_contracts[b], num_items, rng).v
                  mutated == mutate(top_contracts[a], selected_inputs, items,
                                    num_items, rng)
              IN  /\ Len(child) = num_items
                  /\ \E n \in 1..(num_items \div 2 - 1) :
                        SplitAt(child, top_contracts[a], top_contracts[b], n)
                  /\ mutated.ok => Len(mutated.v) = num_items

\* the second generation of a population of three is about to be evaluated:
\* its second contract was bred by Reproduce and is not one of the elite
C24_Witness ==
    /\ cfg.engine = "ga" /\ pc = "Evaluate" /\ generation = 1
    /\ Len(population) = 3
    /\ \A e \in 1..Len(top_contracts) : population[2] # top_contracts[e]
    /\ ~CovertPool
    /\ Len(population[2]) = 10

-----------------------------------------------------------------------------
(* The contracts the engines hand to calculate_contract_roi_fast.          *)

\* K is 5 or 10 and every entry has the rarity and the stattrak flag of the
\* first one
WellFormed(contract) ==
    /\ Len(contract) \in {5, 10}
    /\ \A e \in 1..Len(contract) :
          /\ items[contract[e].id].real_rarity = items[contract[1].id].real_rarity
          /\ items[contract[e].id].stattrak = items[contract[1].id].stattrak

\* C25: a contract whose size is not 5 or 10, or whose entries do not share
\* the rarity and the stattrak flag of the first one, is rejected when it is
\* constructed and never reaches the fitness evaluator: every contract
\* ga.evaluate_contract returned a ROI for is well formed.
C25_RejectedAtConstruction ==
    cfg.engine = "roi" /\ pc = "Returned" => WellFormed(TheContract)

-----------------------------------------------------------------------------
(* genetic.py: the best ROI of successive generations.                     *)

\* C26: in run_genetic_algorithm the best ROI of a generation is never lower
\* than the best ROI of the generation before it.
C26_GenerationBestMonotone ==
    cfg.engine = "ga" =>
        \A g \in 1..(Len(hist.gen_best) - 1) :
            ScoreGE(hist.gen_best[g + 1].score, hist.gen_best[g].score)

\* two generations were scored and the second one's best contract, bred by
\* Reproduce, beats the best of the first
C26_Witness ==
    /\ cfg.engine = "ga"
    /\ Len(hist.gen_best) = 2
    /\ hist.reproduces = 1
    /\ ScoreGT(hist.gen_best[2].score, hist.gen_best[1].score)

-----------------------------------------------------------------------------
(* genetic.py: the elite across Reproduce.                                 *)

\* C27: crossover and mutate do not modify the contracts passed to them:
\* when a Reproduce phase ends, every elite contract has the item ids, floats
\* and prices it had when it was evaluated, and elite[0] heads the new
\* population with them.
C27_ElitesUnchanged ==
    [][pc = "Reproduce" =>
          /\ top_contracts' = select_top_contracts(population, fitness_scores,
                                                   cfg.elite_size)
          /\ \A e \in 1..Len(top_contracts') :
                [contract |-> top_contracts'[e], score |-> Roi(top_contracts'[e])]
                    \in hist.scored
          /\ pc' = "Evaluate" => population'[1] = top_contracts'[1]]_vars

\* a Reproduce phase ended in which mutate returned a changed copy of an
\* elite contract, and the elite is as it was evaluated
C27_Witness ==
    /\ cfg.engine = "ga" /\ pc = "Evaluate" /\ generation = 1
    /\ hist.mutations > 0
    /\ \A e \in 1..Len(top_contracts) :
          \E x \in hist.scored : x.contract = top_contracts[e]

-----------------------------------------------------------------------------
(* genetic_island.py: the returned best against what the run lists.        *)

\* C28: the best ROI run_island_genetic_algorithm returns is at least the
\* ROI of every contract of the final cross-island top-5 listing and of
\* every migrant taken from an island's last population.
C28_BestDominatesListing ==
    cfg.engine = "island" /\ pc = "Terminal" =>
        /\ \A k \in 1..Len(top_5_contracts) :
              ScoreGE(best_overall_roi, top_5_contracts[k].score)
        /\ \A i \in 1..Len(island_migrants) :
              \A m \in 1..Len(island_migrants[i]) :
                  ScoreGE(best_overall_roi, Roi(island_migrants[i][m]))

-----------------------------------------------------------------------------
(* genetic.py: print_contract_details, the listing of a ranked contract.   *)

\* lines 17-78: the figures the listing prints.  outcomes_prob: outcome id ->
\* probability, each source's probability split evenly over the outcomes of
\* its bucket; expected_value: the catalog prices weighted by them
print_contract_details(contract, its, table) ==
    LET first_item == its[contract[1].id]
        input_rarity == first_item.real_rarity
        stattrak == first_item.stattrak
        source_counts == SourceCounts(contract, its)
        Listing(float_factor_int) ==
            LET outcomes == [source_id \in DOMAIN source_counts |->
                                Tail(table[input_rarity][stattrak][source_id][float_factor_int])]
                prob_each == [source_id \in DOMAIN source_counts |->
                                 Rat(source_counts[source_id],
                                     Len(contract) * Len(outcomes[source_id]))]
                Times(source_id, outcome_id) ==
                    Cardinality({ k \in 1..Len(outcomes[source_id]) :
                                    outcomes[source_id][k].item_id = outcome_id })
                RECURSIVE Prob(_, _)
                Prob(outcome_id, S) ==
                    IF S = {} THEN RatInt(0)
                    ELSE LET source_id == CHOOSE x \in S : TRUE
                         IN  RatAdd(RatMul(RatInt(Times(source_id, outcome_id)),
                                           prob_each[source_id]),
                                    Prob(outcome_id, S \ {source_id}))
                outcomes_prob ==
                    [outcome_id \in UNION { { outcomes[source_id][k].item_id :
                                                k \in 1..Len(outcomes[source_id]) } :
                                            source_id \in DOMAIN source_counts } |->
                        Prob(outcome_id, DOMAIN source_counts)]
                RECURSIVE Weighted(_)
                Weighted(S) ==
                    IF S = {} THEN RatInt(0)
                    ELSE LET outcome_id == CHOOSE x \in S : TRUE
                         IN  RatAdd(RatMul(RatInt(its[outcome_id].price),
                                           outcomes_prob[outcome_id]),
                                    Weighted(S \ {outcome_id}))
            IN  [total_input_price |-> SumPrices(contract),
                 float_factor_int |-> float_factor_int,
                 outcomes_prob |-> outcomes_prob,
                 expected_value |-> Weighted(DOMAIN outcomes_prob)]
    IN  Listing(FloatFactorInt(contract, its))

\* the expected value calculate_contract_roi_fast computes for the contract
FitnessExpectedValue(contract) ==
    LET counts == SourceCounts(contract, items)
        Means(float_factor_int) ==
            ExpectedValue(counts, DOMAIN counts,
                          [source_id \in DOMAIN counts |->
                              precomputed_outcomes[items[contract[1].id].real_rarity]
                                                  [items[contract[1].id].stattrak]
                                                  [source_id][float_factor_int]],
                          Len(contract))
    IN  Means(FloatFactorInt(contract, items))

\* C29: for every contract of the final listing, the expected output value
\* print_contract_details computes (catalog price x probability, summed over
\* the outcomes) equals the expected value the fitness function computed its
\* ROI from, also when outcomes have offers at or below the liquidity
\* threshold.
C29_ListingMatchesFitness ==
    cfg.engine = "ga" /\ pc = "Terminal" =>
        \A k \in 1..Len(top_5_contracts) :
            print_contract_details(top_5_contracts[k].contract, items,
                                   precomputed_outcomes).expected_value
                = FitnessExpectedValue(top_5_contracts[k].contract)

-----------------------------------------------------------------------------
(* preload.py: the candidate pool against the outcome table.               *)

\* the contract is made of entries of the pool
FromPool(contract) == \A e \in 1..Len(contract) : contract[e] \in Range(selected_inputs)

\* C30: every contract built only from entries of the pool that
\* load_input_items returned is evaluated without a missing lookup key: the
\* table has a bucket for each source of each of its items.
C30_PoolContractsHaveKeys ==
    \A c \in 1..Len(population) :
        FromPool(population[c]) =>
            LET roi == calculate_contract_roi_fast(population[c], items,
                                                   precomputed_outcomes)
            IN  roi.ok \/ roi.error # "KeyError"

-----------------------------------------------------------------------------
(* tradeup_calc.py: the float bucket.                                      *)

\* the average of the contract's normalized floats, as a fraction
AvgNormalized == RatDiv(SumNormalized(TheContract, items), RatInt(Len(TheContract)))

\* C13: the bucket calculate_contract_roi_fast consults is
\* min(ceil(avg_normalized x 100), 99): an average equal to k/100 gives
\* bucket k, an average strictly between k/100 and (k+1)/100 gives k+1, an
\* average above 0.99 gives 99, and the bucket of a contract whose floats are
\* within the nominal ranges of its items is in 0..99.
C13_BucketIsCeiling ==
    cfg.engine = "roi" /\ pc # "Call" =>
        /\ TheBucket \in 0..99
        /\ TheBucket = Min(RatCeil(RatMul(AvgNormalized, RatInt(100))), 99)

-----------------------------------------------------------------------------
(* tradeup_calc.py: a total input cost of 0.                               *)

\* C14: a call of calculate_contract_roi_fast on a contract whose entry
\* prices add up to 0 ends with an exception (the division of line 67 raises
\* ZeroDivisionError, unless a lookup of line 62 raised KeyError before it)
\* and returns no number.
C14_ZeroCostRaises ==
    cfg.engine = "roi" /\ pc # "Call" /\ SumPrices(TheContract) = 0 =>
        /\ pc = "Raised"
        /\ fitness_scores = << >>
        /\ hist.error = IF KeysExist THEN "ZeroDivisionError" ELSE "KeyError"

\* a contract of several entries of cost 0 whose keys are all in the table
\* was evaluated and the division raised
C14_Witness ==
    /\ cfg.engine = "roi" /\ pc = "Raised"
    /\ Len(TheContract) > 1
    /\ SumPrices(TheContract) = 0
    /\ KeysExist
    /\ hist.error = "ZeroDivisionError"

-----------------------------------------------------------------------------
(* genetic.py: a missing key inside a worker.                              *)

\* C15: a contract whose (rarity, stattrak, source, bucket) key is not in the
\* outcome table does not abort the evaluation of the population: no run
\* ends on the KeyError of a lookup, the other contracts are still scored.
C15_MissingKeyIsolated ==
    cfg.engine = "ga" => ~(pc = "Failed" /\ hist.error = "KeyError")

-----------------------------------------------------------------------------
(* genetic.py: an exception inside a worker batch.                         *)

\* the exceptions an evaluation can raise
EvaluationErrors == { "KeyError", "ZeroDivisionError" }

\* C16: once the evaluation of a contract has raised inside a batch, the run
\* of run_genetic_algorithm is over: the batches that did return are never
\* merged into a fitness list (the merges done are those of the generations
\* selected before), no Select, Reproduce or final ranking follows, and no
\* step changes anything afterwards.
C16_WorkerFailureAborts ==
    /\ [](cfg.engine = "ga" /\ hist.error \in EvaluationErrors =>
              /\ pc = "Failed"
              /\ hist.evals = Len(hist.gen_best)
              /\ hist.evals \in {generation, generation + 1}
              /\ hist.reproduces = generation
              /\ (hist.evals = 0 => fitness_scores = << >>)
              /\ top_5_contracts = << >>)
    /\ [][cfg.engine = "ga" /\ hist.error \in EvaluationErrors => UNCHANGED vars]_vars

\* a batch raised after another batch of the same generation had returned
\* its scores, in a run that had a generation left
C16_Witness ==
    /\ cfg.engine = "ga" /\ pc = "Failed"
    /\ hist.error \in EvaluationErrors
    /\ generation < cfg.generations - 1
    /\ \E i \in DOMAIN results : results[i] # << >>
    /\ fitness_scores = << >>

-----------------------------------------------------------------------------
(* preload.py: precompute_outcomes on its own, applied to catalogs drawn   *)
(* from a bounded set.                                                     *)

\* the real float ranges and the offer counts of the output items
RealRanges == { << 0, 1000 >>, << 70, 150 >>, << 150, 380 >>, << 0, 70 >> }
OfferCounts == { MINIMUM_OFFERS - 1, MINIMUM_OFFERS, MINIMUM_OFFERS + 1 }

\* two crates: a Classified and two Covert items (one of them in both
\* crates), two Gold items of crate_1 and one of crate_2; the stattrak flags,
\* the real ranges, the nominal range and the offers vary
PreloadCatalogs ==
    { [items |->
         << Item(1, "Classified", 50, 100, 0, 1000, 0, 1000, << "crate_1" >>),
            [Item(2, "Covert", 100, 100, 0, 1000, 70, 150, << "crate_1", "crate_2" >>)
                EXCEPT !.stattrak = st2],
            Item(3, "Covert", 120, offers, 0, 500, 70, 150, << "crate_1" >>),
            Item(4, "Gold", 700, offers, 0, max4, r4[1], r4[2], << "crate_1" >>),
            Item(5, "Gold", 400, 100, 0, 1000, r5[1], r5[2], << "crate_1" >>),
            [Item(6, "Gold", 900, 100, 0, 1000, 0, 1000, << "crate_2" >>)
                EXCEPT !.stattrak = st6] >>,
       sources |-> [s \in {"crate_1", "crate_2"} |->
                      [items |-> IF s = "crate_1" THEN << 1, 2, 3, 4, 5 >>
                                 ELSE << 2, 6 >>]]] :
        st2 \in BOOLEAN, st6 \in BOOLEAN, offers \in OfferCounts,
        max4 \in {500, 700, 1000}, r4 \in RealRanges, r5 \in RealRanges }

InitPreload ==
    /\ \E cat \in PreloadCatalogs :
          /\ items = cat.items
          /\ sources = cat.sources
    /\ precomputed_outcomes = << >>
    /\ selected_inputs = << >>
    /\ cfg = [engine |-> "preload"]
    /\ rng = << 0 >>
    /\ pc = "Load"
    /\ population = << >>
    /\ fitness_scores = << >>
    /\ generation = 0
    /\ top_contracts = << >>
    /\ best_overall_roi = NegInf
    /\ best_overall_contract = << >>
    /\ work_items = << >>
    /\ pending = {}
    /\ results = << >>
    /\ pool_error = ""
    /\ top_5_contracts = << >>
    /\ island_populations = << >>
    /\ migration_epoch = 0
    /\ island_results = << >>
    /\ island_migrants = << >>
    /\ worker = << >>
    /\ hist = NoHist

\* precompute_outcomes(): PRECOMPUTED_OUTCOMES is cleared and filled
PrecomputeOutcomes ==
    /\ cfg.engine = "preload" /\ pc = "Load"
    /\ precomputed_outcomes' = precompute_outcomes(items, sources)
    /\ pc' = "Loaded"
    /\ UNCHANGED << items, sources, selected_inputs, cfg, islandVars, evalVars, rng,
                    population, fitness_scores, generation, top_contracts,
                    best_overall_roi, best_overall_contract, top_5_contracts, hist >>

SpecPreload == InitPreload /\ [][PrecomputeOutcomes]_vars

\* the rarity one step above input_rarity
NextRarity(input_rarity) == RARITY_ORDER[RarityIndex(input_rarity) + 1]

\* the exact value of i / 100 x (max_float - min_float) + min_float for item
\* id, in units of 0.00001
ExactFinalFloat(id, i) ==
    i * (ItemMax(items[id]) - ItemMin(items[id])) + 100 * ItemMin(items[id])

\* the items of source_id of the rarity above input_rarity and of the same
\* stattrak flag whose final float at factor i / 100 is in their real range,
\* both ends included
Qualifying(input_rarity, stattrak, source_id, i) ==
    { id \in Range(sources[source_id].items) :
        /\ items[id].real_rarity = NextRarity(input_rarity)
        /\ items[id].stattrak = stattrak
        /\ 100 * items[id].real_min_float <= ExactFinalFloat(id, i)
        /\ ExactFinalFloat(id, i) <= 100 * items[id].real_max_float }

\* the (input_rarity, stattrak, source, i) keys of the stored buckets
StoredKeys ==
    { key \in (DOMAIN precomputed_outcomes) \X BOOLEAN \X (DOMAIN sources) \X (0..120) :
        /\ key[3] \in DOMAIN precomputed_outcomes[key[1]][key[2]]
        /\ key[4] \in DOMAIN precomputed_outcomes[key[1]][key[2]][key[3]] }

StoredBucket(key) == precomputed_outcomes[key[1]][key[2]][key[3]][key[4]]

\* the sum of the 'price' fields of the outcomes of a bucket
RECURSIVE OutcomePrices(_)
OutcomePrices(outcomes) ==
    IF outcomes = << >> THEN 0
    ELSE Head(outcomes).price + OutcomePrices(Tail(outcomes))

\* C17: every bucket precompute_outcomes stores has an input rarity below
\* Gold and a factor i in 0..99, lists (without repetition) exactly the items
\* of the source of the next rarity and the same stattrak flag whose final
\* float i/100 x (max_float - min_float) + min_float is within their real
\* range, is not empty, and has the mean of the stored prices as element 0;
\* a (source, i) without such an item has no bucket.
C17_StoredBuckets ==
    cfg.engine = "preload" /\ pc = "Loaded" =>
        /\ \A key \in StoredKeys :
              LET outcomes == Tail(StoredBucket(key))
              IN  /\ key[1] # "Gold"
                  /\ key[4] \in 0..99
                  /\ outcomes # << >>
                  /\ { o.item_id : o \in Range(outcomes) }
                         = Qualifying(key[1], key[2], key[3], key[4])
                  /\ Len(outcomes)
                         = Cardinality(Qualifying(key[1], key[2], key[3], key[4]))
                  /\ StoredBucket(key)[1] = Rat(OutcomePrices(outcomes), Len(outcomes))
        /\ \A input_rarity \in Range(RARITY_ORDER) \ {"Gold"}, stattrak \in BOOLEAN,
                source_id \in DOMAIN sources, i \in 0..99 :
              Qualifying(input_rarity, stattrak, source_id, i) = {} =>
                  << input_rarity, stattrak, source_id, i >> \notin StoredKeys

\* what an outcome of item id adds to the numerator of the mean price
Contribution(id) == IF items[id].offers > MINIMUM_OFFERS THEN items[id].price ELSE 0

RECURSIVE Contributions(_)
Contributions(S) ==
    IF S = {} THEN 0
    ELSE LET id == CHOOSE x \in S : TRUE
         IN  Contribution(id) + Contributions(S \ {id})

\* C18: in the table precompute_outcomes builds, an outcome of an item with
\* MINIMUM_OFFERS offers or fewer is stored with price 0, an outcome of an
\* item with more offers is stored with the item's price, and element 0 of a
\* bucket is the sum of those stored prices over the number of outcomes, the
\* outcomes of price 0 counted.
C18_LiquidityFilter ==
    cfg.engine = "preload" /\ pc = "Loaded" =>
        \A key \in StoredKeys :
            LET bucket == StoredBucket(key)
                ids == { bucket[k].item_id : k \in 2..Len(bucket) }
            IN  /\ \A k \in 2..Len(bucket) :
                      /\ items[bucket[k].item_id].offers <= MINIMUM_OFFERS =>
                              bucket[k].price = 0
                      /\ items[bucket[k].item_id].offers > MINIMUM_OFFERS =>
                              bucket[k].price = items[bucket[k].item_id].price
                /\ bucket[1] = Rat(Contributions(ids), Len(bucket) - 1)

\* a bucket holds an outcome of an item with exactly MINIMUM_OFFERS offers
\* next to an outcome of a liquid item, and its mean is half the liquid price
C18_Witness ==
    /\ cfg.engine = "preload" /\ pc = "Loaded"
    /\ \E key \in StoredKeys :
          LET bucket == StoredBucket(key)
          IN  /\ Len(bucket) = 3
              /\ items[bucket[2].item_id].offers = MINIMUM_OFFERS
              /\ items[bucket[2].item_id].price > 0
              /\ bucket[2].price = 0
              /\ bucket[3].price = 400
              /\ bucket[1] = RatInt(200)

-----------------------------------------------------------------------------
(* The catalog and the outcome table during a run.                         *)

\* C19: no step of either engine (initialisation, evaluation, selection,
\* reproduction, migration, final ranking) changes the item catalog, the
\* sources or the precomputed outcome table, and at Terminal the table is
\* still the one precompute_outcomes built from the catalog before the run.
C19_CatalogReadOnly ==
    /\ [][UNCHANGED << items, sources, precomputed_outcomes >>]_vars
    /\ [](pc = "Terminal" =>
              precomputed_outcomes = precompute_outcomes(items, sources))

\* a run of the island engine with a migration reached Terminal with the
\* table of its catalog
C19_Witness ==
    /\ cfg.engine = "island" /\ pc = "Terminal"
    /\ hist.migrations > 0
    /\ top_5_contracts # << >>
    /\ precomputed_outcomes = precompute_outcomes(items, sources)

-----------------------------------------------------------------------------
(* genetic.py: normalize_contract on its own, applied to pairs of          *)
(* contracts drawn from a bounded set.                                     *)

MaxSigLen == 3      \* contracts of 1..MaxSigLen entries

\* entries of two items and two floats; two of them differ in the price only
SigEntries ==
    { [id |-> 1, float |-> 90, price |-> 100], [id |-> 1, float |-> 90, price |-> 120],
      [id |-> 1, float |-> 110, price |-> 100], [id |-> 2, float |-> 90, price |-> 100] }

SigContracts == UNION { [1..k -> SigEntries] : k \in 1..MaxSigLen }

InitNormalize ==
    /\ items = << >>
    /\ sources = << >>
    /\ precomputed_outcomes = << >>
    /\ selected_inputs = << >>
    /\ cfg = [engine |-> "normalize"]
    /\ rng = << 0 >>
    /\ pc = "Call"
    /\ \E first \in SigContracts, second \in SigContracts :
          population = << first, second >>
    /\ fitness_scores = << >>
    /\ generation = 0
    /\ top_contracts = << >>
    /\ best_overall_roi = NegInf
    /\ best_overall_contract = << >>
    /\ work_items = << >>
    /\ pending = {}
    /\ results = << >>
    /\ pool_error = ""
    /\ top_5_contracts = << >>
    /\ island_populations = << >>
    /\ migration_epoch = 0
    /\ island_results = << >>
    /\ island_migrants = << >>
    /\ worker = << >>
    /\ hist = NoHist

\* normalize_contract(first), normalize_contract(second)
NormalizeContracts ==
    /\ cfg.engine = "normalize" /\ pc = "Call"
    /\ results' = << normalize_contract(population[1]),
                     normalize_contract(population[2]) >>
    /\ pc' = "Returned"
    /\ UNCHANGED << catalogVars, islandVars, rng, population, fitness_scores,
                    generation, top_contracts, best_overall_roi,
                    best_overall_contract, top_5_contracts, work_items, pending,
                    pool_error, hist >>

SpecNormalize == InitNormalize /\ [][NormalizeContracts]_vars

\* the orderings of 1..n
Orderings(n) ==
    { f \in [1..n -> 1..n] : { f[i] : i \in 1..n } = 1..n }

\* the number of entries of the contract with the (item id, float) pair
CountPair(contract, pair) ==
    Cardinality({ k \in 1..Len(contract) :
                    << contract[k].id, contract[k].float >> = pair })

\* the two contracts hold the same multiset of (item id, float) pairs
SameMultiset(first, second) ==
    \A pair \in { << e.id, e.float >> : e \in Range(first) \cup Range(second) } :
        CountPair(first, pair) = CountPair(second, pair)

\* C20: the signature normalize_contract returns is the same for every
\* permutation of the entries of a contract, and two contracts have the same
\* signature exactly when they hold the same multiset of (item id, float)
\* pairs, whatever the prices of their entries.
C20_SignatureOrderIndependent ==
    cfg.engine = "normalize" /\ pc = "Returned" =>
        /\ \A f \in Orderings(Len(population[1])) :
              normalize_contract([k \in 1..Len(population[1]) |-> population[1][f[k]]])
                  = results[1]
        /\ (results[1] = results[2]) <=> SameMultiset(population[1], population[2])

\* two contracts of three entries with the same pairs in another order, a
\* repeated pair and different prices have the same signature
C20_Witness ==
    /\ cfg.engine = "normalize" /\ pc = "Returned"
    /\ Len(population[1]) = 3 /\ Len(population[2]) = 3
    /\ population[1] # population[2]
    /\ population[1][1].id # population[2][1].id
    /\ \E k \in 1..3 : population[1][k].price # population[2][k].price
    /\ \E j, k \in 1..3 :
          /\ j # k
          /\ population[1][j].id = population[1][k].id
          /\ population[1][j].float = population[1][k].float
    /\ results[1] = results[2]

=============================================================================
